---- MODULE Spec2Model ----
(***************************************************************************)
(* Background sync orchestrator of better-search-console                   *)
(* (src/src/core/SyncManager.ts, with the fetch client of                  *)
(* src/src/core/GscClient.ts).                                             *)
(*                                                                         *)
(* Node runs the orchestrator on one thread.  A step of the model is one   *)
(* task of the event loop together with every promise continuation it      *)
(* makes ready: a tool call (startSync, startSyncAll, getStatus,           *)
(* cancelJob), the arrival of one upstream response, one tick of a         *)
(* cancellation-check interval, or the expiry of one retry back-off timer. *)
(* better-sqlite3 is synchronous, so database calls never suspend.         *)
(*                                                                         *)
(* Dates are day numbers.  Wall-clock fields (startedAt, elapsedMs,        *)
(* durationMs) are not modelled.                                           *)
(***************************************************************************)
EXTENDS Integers, Sequences, FiniteSets, TLC

\* ---------------------------------------------------------------- constants
CHUNK_CONCURRENCY == 3
PROPERTY_CONCURRENCY == 2
CHUNK_DAYS == 90
MAX_JOB_HISTORY == 50
ROW_LIMIT == 25000
MAX_RETRIES == 3
\* DEFAULT_POLICY.recentDays
RECENT_DAYS == 90

\* ------------------------------------------------------------------- bounds
\* jobs started during a run of several jobs (one fewer where the registry
\* starts full)
MaxJobs == 3
\* date-range chunks planned during a run of one job
MaxChunks == 3
\* the same, over all jobs of a run of wide jobs
MaxFanOut == 9
\* upstream errors and database-open failures during a run
MaxFaults == 1
\* full pages (ROW_LIMIT rows) returned during a run
MaxFullPages == 1
\* accepted cancellations during a run
MaxCancels == 1
\* status objects a caller keeps after getStatus returned
MaxHolds == 1
\* rows of a short, non-empty page
ShortPage == 1

\* the rows the table holds at most
MaxRows == 2

\* ------------------------------------------------------------------ helpers
\* an absent optional date (startDate?: string), also "no stored data"
NoDate == 0
\* an omitted jobId (getStatus(jobId?: string)); '' is falsy as well
NoId == 0
\* estimatedTotalRows before any estimate (null)
NoEstimate == -1
\* the day `new Date()` falls on
Today == 1000

Sites == {"a", "b", "c"}

EmptyFn == [x \in {} |-> x]

Min(a, b) == IF a < b THEN a ELSE b

Range(s) == {s[x] : x \in DOMAIN s}

Without(f, k) == [x \in DOMAIN f \ {k} |-> f[x]]

With(f, k, v) == [x \in DOMAIN f \cup {k} |-> IF x = k THEN v ELSE f[x]]

Terminal == {"completed", "failed", "cancelled"}

defaultEndDate == Today

\* three calendar months before today (3 Aug .. 3 Nov: 92 days)
defaultStartDate == Today - 92

VARIABLES
    jobs,       \* SyncManager.jobs: job id -> the SyncJob object it refers to
    jobOrder,   \* SyncManager.jobOrder
    heap,       \* the SyncJob objects, by address (a job keeps its object while it runs)
    task,       \* per SyncJob object: the activation of runJob and of its property syncs
    store,      \* per site: the latest date its search_analytics table holds, and
                \* the chunks written in this run whose rows are all still there
    nextId,     \* the next id randomUUID() yields (ids are taken to be fresh)
    ret,        \* what the last tool call returned; consumed by the next step
    held,       \* a status object a caller kept, with what it held when returned
    scenario,   \* the inputs the environment draws from in this run (never changes)
    quota,      \* what the environment may still do in this run
    table,      \* the rows of one site's search_analytics table, in rowid order
    retry,      \* one activation of withRetry
    pool,       \* one activation of runWithConcurrency
    paging      \* one activation of fetchSearchAnalytics

vars == <<jobs, jobOrder, heap, task, store, nextId, ret, held, scenario, quota, table, retry,
          pool, paging>>

\* ------------------------------------------------------------------- dates
(* A date string "YYYY-MM-DD" is its day number; a Date object is an       *)
(* instant, in hours since 00:00 UTC of day 0.  The process runs in the    *)
(* time zone scenario.zone: std hours ahead of UTC, one hour more between  *)
(* the instants spring and fall.                                           *)
HoursPerDay == 24

\* an instant no run reaches
Never == 1000000

\* new Date("YYYY-MM-DD"): midnight UTC of that day
parseDate(date) == date * HoursPerDay

\* d.toISOString().slice(0, 10)
isoDate(t) == t \div HoursPerDay

\* the local clock is ahead of UTC by this many hours at instant t
utcOffset(t) ==
    IF scenario.zone.spring <= t /\ t < scenario.zone.fall
    THEN scenario.zone.std + 1
    ELSE scenario.zone.std

\* the instant at which the local clock reads local; a reading the clock
\* takes twice is the earlier instant, one it skips is read with the offset
\* before the change
localToUtc(local) ==
    LET summer == local - (scenario.zone.std + 1)
    IN IF scenario.zone.spring <= summer /\ summer < scenario.zone.fall
       THEN summer
       ELSE local - scenario.zone.std

\* d.setDate(d.getDate() + n): n calendar days on, same local time of day
setDate(t, n) == localToUtc(t + utcOffset(t) + n * HoursPerDay)

\* DataRetention.prune's cutoff under the default policy, at noon UTC
cutoffDate == isoDate(setDate(parseDate(Today) + 12, 0 - RECENT_DAYS))

\* Math.round of the days between two midnights UTC
daysBetween(dateFrom, dateTo) ==
    (2 * (parseDate(dateTo) - parseDate(dateFrom)) + HoursPerDay) \div (2 * HoursPerDay)

\* buildChunks' loop, cursor and end being Date objects
RECURSIVE buildChunksFrom(_, _)
buildChunksFrom(cursor, end) ==
    IF cursor <= end
    THEN LET chunkEnd == setDate(cursor, CHUNK_DAYS - 1)
             effectiveEnd == IF chunkEnd > end THEN end ELSE chunkEnd
         IN <<[from |-> isoDate(cursor), to |-> isoDate(effectiveEnd)]>>
                \o buildChunksFrom(setDate(effectiveEnd, 1), end)
    ELSE <<>>

buildChunks(dateFrom, dateTo) ==
    buildChunksFrom(parseDate(dateFrom), parseDate(dateTo))

NoRet == [op |-> "none"]
NoRetry == [pc |-> "none"]
NoPool == [outcome |-> "none"]
NoPaging == [pc |-> "none"]
NoHeld == [kept |-> FALSE]

\* ------------------------------------------------------------ job registry
\* the object literal of createJob.  Three fields record history: statusLog
\* every value assigned to job.status, in order; fetched the chunks <<i, k>>
\* (property, chunk) whose fetch returned rows without an error; stored the
\* chunks whose rows insertSearchAnalyticsBatch has written
NewJob(id, properties) ==
    [id |-> id,
     status |-> "queued",
     cancelled |-> FALSE,
     properties |-> properties,
     totalProperties |-> Len(properties),
     completedProperties |-> 0,
     currentProperty |-> <<>>,
     rowsFetched |-> 0,
     estimatedTotalRows |-> NoEstimate,
     apiCallsMade |-> 0,
     results |-> <<>>,
     error |-> <<>>,
     statusLog |-> <<"queued">>,
     fetched |-> {},
     stored |-> {}]

SetStatus(job, s) ==
    [job EXCEPT !.status = s, !.statusLog = Append(@, s)]

\* a pruneHistory that drops the oldest job whatever its status
pruneOldest(R, h) ==
    IF Len(R.jobOrder) > MAX_JOB_HISTORY
    THEN [jobs |-> Without(R.jobs, Head(R.jobOrder)), jobOrder |-> Tail(R.jobOrder)]
    ELSE R

\* pruneHistory on the registry R = [jobs, jobOrder], reading objects in h
RECURSIVE pruneHistory(_, _)
pruneHistory(R, h) ==
    IF Len(R.jobOrder) > MAX_JOB_HISTORY
    THEN LET oldId == Head(R.jobOrder)
         IN IF oldId \in DOMAIN R.jobs /\ h[R.jobs[oldId]].status \in Terminal
            THEN pruneHistory([jobs |-> Without(R.jobs, oldId),
                               jobOrder |-> Tail(R.jobOrder)], h)
            ELSE R
    ELSE R

\* createJob: the registry after set, push and pruneHistory
createJob(R, h, id, properties) ==
    pruneHistory([jobs |-> With(R.jobs, id, id),
                  jobOrder |-> Append(R.jobOrder, id)],
                 With(h, id, NewJob(id, properties)))

\* ------------------------------------------------- property and chunk work
(* W is the part of the state one event-loop task works on:                *)
(*   job   the SyncJob object          t  its runJob activation            *)
(*   store the per-site stores         q  settled property syncs whose     *)
(*   o     what the environment does      continuation is still queued     *)
(*   fault, pruneRan  whether o's failure and o's prune were used          *)

\* the request a chunk worker has just issued through withRetry
IssueFetch ==
    [startRow |-> 0, totalRows |-> 0, chunkRows |-> 0, attempt |-> 0,
     phase |-> "inflight"]

\* a chunk worker that looks at the abort signal only, not at job.cancelled
RECURSIVE chunkWorkerSignalOnly(_, _)
chunkWorkerSignalOnly(W, i) ==
    LET P == W.t.props[i]
    IN IF P.index < Len(P.chunks)
       THEN LET k == P.index + 1
                W1 == [W EXCEPT !.t.props[i].index = k]
            IN IF P.aborted
               THEN chunkWorkerSignalOnly(W1, i)
               ELSE [W1 EXCEPT !.t.props[i].fetch = With(@, k, IssueFetch)]
       ELSE W

\* one worker of runWithConcurrency(chunks, CHUNK_CONCURRENCY, ...) of
\* property i, from its loop test to its next await of a request
RECURSIVE chunkWorker(_, _)
chunkWorker(W, i) ==
    LET P == W.t.props[i]
    IN IF P.index < Len(P.chunks)
       THEN LET k == P.index + 1
                W1 == [W EXCEPT !.t.props[i].index = k]
            IN IF W.job.cancelled \/ P.aborted
               THEN chunkWorker(W1, i)
               ELSE [W1 EXCEPT !.t.props[i].fetch = With(@, k, IssueFetch)]
       ELSE W

RECURSIVE startChunkWorkers(_, _, _)
startChunkWorkers(W, i, n) ==
    IF n = 0 THEN W ELSE startChunkWorkers(chunkWorker(W, i), i, n - 1)

\* a SyncJobResult; kept records the rows the property sync had inserted
\* when the result was made, prune how the property sync's call of
\* DataRetention.prune went ("none": it made no call), syncLog the status of
\* the sync_log row the property sync created ("none": it created no row),
\* marked whether the property sync called db.updateLastSynced
Result(site, status, fetched, inserted, err, pruned, kept) ==
    [siteUrl |-> site, status |-> status, rowsFetched |-> fetched,
     rowsInserted |-> inserted, error |-> err, pruned |-> pruned, kept |-> kept,
     prune |-> "none", syncLog |-> "none", marked |-> FALSE]

\* a property sync whose settling nobody waits for
SettleLost(W, i, result) == W

Settle(W, i, result) == [W EXCEPT !.q = Append(@, [i |-> i, result |-> result])]

\* a syncOneProperty that updates the last-synced marker on every completion
marksLastSyncedAlways(P) == TRUE

\* if (propRowsInserted > 0) db.updateLastSynced(siteUrl)
marksLastSynced(P) == P.propRowsInserted > 0

\* syncOneProperty after runWithConcurrency resolved: sync log, last-synced
\* marker, result, auto-prune, and the two finally blocks
completeProperty(W, i) ==
    LET P == W.t.props[i]
        cancelled == W.job.cancelled
        doPrune == ~cancelled /\ P.propRowsInserted > 0
        result == [Result(P.siteUrl,
                          IF cancelled THEN "cancelled" ELSE "completed",
                          P.propRowsFetched, P.propRowsInserted, FALSE,
                          doPrune /\ W.o.prune = "deleted", P.propRowsInserted)
                      EXCEPT !.prune = IF doPrune THEN W.o.prune ELSE "none",
                             !.syncLog = IF cancelled THEN "cancelled" ELSE "completed",
                             !.marked = marksLastSynced(P)]
        old == {c \in W.store[P.siteUrl].written : c.from < cutoffDate}
    IN Settle([W EXCEPT !.t.props = Without(@, i),
                        !.pruneRan = @ \/ doPrune,
                        !.store[P.siteUrl].written =
                            IF doPrune /\ W.o.prune = "deleted" THEN @ \ old ELSE @],
              i, result)

\* the chunk worker of property i has finished a chunk without throwing:
\* it loops; when it was the last worker, Promise.all resolves
afterChunk(W, i) ==
    LET W1 == chunkWorker(W, i)
        P == W1.t.props[i]
    IN IF DOMAIN P.fetch # {}
       THEN W1
       ELSE IF P.settled
            THEN [W1 EXCEPT !.t.props = Without(@, i)]
            ELSE completeProperty(W1, i)

\* a chunk failure after which every rejected worker makes a result
chunkThrowsEach(W, i, k) ==
    LET P == W.t.props[i]
        rest == Without(P.fetch, k)
        W1 == IF rest = EmptyFn
              THEN [W EXCEPT !.t.props = Without(@, i)]
              ELSE [W EXCEPT !.t.props[i] =
                        [P EXCEPT !.fetch = rest, !.settled = TRUE,
                                  !.timer = FALSE, !.dbOpen = FALSE]]
    IN Settle(W1, i, [Result(P.siteUrl, "failed", 0, 0, TRUE, FALSE,
                             P.propRowsInserted) EXCEPT !.syncLog = P.syncLog])

\* the chunk worker on chunk k of property i throws: its promise rejects;
\* the first rejection rejects Promise.all, so syncOneProperty leaves through
\* its finally blocks (clearInterval, db.close) and syncProperty's catch
\* records a failed result.  The other workers stay as they are.
chunkThrows(W, i, k) ==
    LET P == W.t.props[i]
        rest == Without(P.fetch, k)
        W1 == IF rest = EmptyFn
              THEN [W EXCEPT !.t.props = Without(@, i)]
              ELSE [W EXCEPT !.t.props[i] =
                        [P EXCEPT !.fetch = rest, !.settled = TRUE,
                                  !.timer = FALSE, !.dbOpen = FALSE]]
    IN IF P.settled
       THEN W1
       ELSE Settle(W1, i, [Result(P.siteUrl, "failed", 0, 0, TRUE, FALSE,
                                  P.propRowsInserted) EXCEPT !.syncLog = P.syncLog])

\* syncProperty up to its await of syncOneProperty, and syncOneProperty up
\* to its await of runWithConcurrency (or to its return or throw before it)
startProperty(W, i) ==
    LET prop == W.job.properties[i]
        site == prop.siteUrl
        endDate == IF prop.endDate = NoDate THEN defaultEndDate ELSE prop.endDate
        active == IF site \in Range(W.t.activeProperties)
                  THEN W.t.activeProperties
                  ELSE Append(W.t.activeProperties, site)
        W1 == [W EXCEPT !.t.activeProperties = active,
                        !.job.currentProperty = active]
        lastDate == W.store[site].lastDate
        nextDay == isoDate(setDate(parseDate(lastDate), 1))
        resume == prop.startDate = NoDate /\ lastDate # NoDate
        startDate == IF prop.startDate # NoDate THEN prop.startDate
                     ELSE IF lastDate # NoDate THEN nextDay
                     ELSE defaultStartDate
        chunks == IF daysBetween(startDate, endDate) > CHUNK_DAYS
                  THEN buildChunks(startDate, endDate)
                  ELSE <<[from |-> startDate, to |-> endDate]>>
        P == [siteUrl |-> site, startDate |-> startDate, endDate |-> endDate,
              lastDate |-> IF prop.startDate = NoDate THEN lastDate ELSE NoDate,
              consulted |-> prop.startDate = NoDate,
              chunks |-> chunks, index |-> 0,
              aborted |-> FALSE, timer |-> TRUE, dbOpen |-> TRUE,
              propRowsFetched |-> 0, propRowsInserted |-> 0,
              settled |-> FALSE, fetch |-> EmptyFn, syncLog |-> "running"]
        W2 == startChunkWorkers([W1 EXCEPT !.t.props = With(@, i, P)], i,
                                Min(Len(chunks), CHUNK_CONCURRENCY))
    IN IF W.o.dbFail = site
       THEN Settle([W1 EXCEPT !.fault = TRUE], i,
                   Result(site, "failed", 0, 0, TRUE, FALSE, 0))
       ELSE IF resume /\ ~(nextDay <= endDate)
            THEN Settle(W1, i, Result(site, "skipped", 0, 0, FALSE, FALSE, 0))
            ELSE IF DOMAIN W2.t.props[i].fetch # {}
                 THEN W2
                 ELSE completeProperty(W2, i)

\* a runJob whose last lines do not look at job.cancelled
finishJobUnflagged(W) ==
    LET job == [W.job EXCEPT !.currentProperty = <<>>]
        failed == SelectSeq(job.results, LAMBDA r : r.status = "failed")
        allFailed == Len(job.results) > 0 /\ Len(failed) = Len(job.results)
    IN [W EXCEPT !.job = SetStatus(job, IF allFailed THEN "failed" ELSE "completed"),
                 !.t.pc = "done"]

\* a runJob whose allFailed is results.every(...) alone
finishJobEvery(W) ==
    LET job == [W.job EXCEPT !.currentProperty = <<>>]
        failed == SelectSeq(job.results, LAMBDA r : r.status = "failed")
        allFailed == Len(failed) = Len(job.results)
    IN [W EXCEPT !.job = IF job.cancelled THEN SetStatus(job, "cancelled")
                         ELSE SetStatus(job, IF allFailed THEN "failed"
                                             ELSE "completed"),
                 !.t.pc = "done"]

\* a runJob that writes the summary whenever a property failed
finishJobAnyFailed(W) ==
    LET job == [W.job EXCEPT !.currentProperty = <<>>]
        failed == SelectSeq(job.results, LAMBDA r : r.status = "failed")
        allFailed == Len(job.results) > 0 /\ Len(failed) = Len(job.results)
        done == IF job.cancelled
                THEN SetStatus(job, "cancelled")
                ELSE [SetStatus(job, IF allFailed THEN "failed" ELSE "completed")
                         EXCEPT !.error = IF Len(failed) > 0
                                          THEN <<Len(failed), job.totalProperties>>
                                          ELSE @]
    IN [W EXCEPT !.job = done, !.t.pc = "done"]

\* runJob after runWithConcurrency(job.properties, ...) resolved
finishJob(W) ==
    LET job == [W.job EXCEPT !.currentProperty = <<>>]
        failed == SelectSeq(job.results, LAMBDA r : r.status = "failed")
        anyFailed == Len(failed) > 0
        allFailed == Len(job.results) > 0 /\ Len(failed) = Len(job.results)
        done == IF job.cancelled
                THEN SetStatus(job, "cancelled")
                ELSE [SetStatus(job, IF allFailed THEN "failed" ELSE "completed")
                         EXCEPT !.error = IF anyFailed /\ ~allFailed
                                          THEN <<Len(failed), job.totalProperties>>
                                          ELSE @]
    IN [W EXCEPT !.job = done, !.t.pc = "done"]

\* one worker of runWithConcurrency(job.properties, PROPERTY_CONCURRENCY,
\* syncProperty), from its loop test to its next await
RECURSIVE propertyWorker(_)
propertyWorker(W) ==
    IF W.t.index < Len(W.job.properties)
    THEN LET i == W.t.index + 1
             W1 == [W EXCEPT !.t.index = i]
         IN IF W1.job.cancelled THEN propertyWorker(W1) ELSE startProperty(W1, i)
    ELSE LET W1 == [W EXCEPT !.t.workers = @ - 1]
         IN IF W1.t.workers = 0 THEN finishJob(W1) ELSE W1

\* a syncProperty that puts the newest result first
afterPropertyFirst(W, e) ==
    LET site == W.job.properties[e.i].siteUrl
        active == SelectSeq(W.t.activeProperties, LAMBDA s : s # site)
    IN [W EXCEPT !.job.results = <<e.result>> \o @,
                 !.job.completedProperties = @ + 1,
                 !.t.activeProperties = active,
                 !.job.currentProperty = active]

\* syncProperty after its await of syncOneProperty: push the result
afterProperty(W, e) ==
    LET site == W.job.properties[e.i].siteUrl
        active == SelectSeq(W.t.activeProperties, LAMBDA s : s # site)
    IN [W EXCEPT !.job.results = Append(@, e.result),
                 !.job.completedProperties = @ + 1,
                 !.t.activeProperties = active,
                 !.job.currentProperty = active]

\* run the queued continuations, first in first out, until none is left
RECURSIVE drain(_)
drain(W) ==
    IF W.q = <<>>
    THEN W
    ELSE drain(propertyWorker(afterProperty([W EXCEPT !.q = Tail(@)], Head(W.q))))

RECURSIVE startPropertyWorkers(_, _)
startPropertyWorkers(W, n) ==
    IF n = 0 THEN W ELSE startPropertyWorkers(propertyWorker(W), n - 1)

\* a runJob that leaves job.status as createJob set it
runJobUnmarked(W) ==
    LET n == Min(PROPERTY_CONCURRENCY, Len(W.job.properties))
        t == [pc |-> "running", index |-> 0, workers |-> n,
              activeProperties |-> <<>>, props |-> EmptyFn]
    IN startPropertyWorkers([W EXCEPT !.t = t], n)

\* runJob up to its await of runWithConcurrency: the point where the
\* caller, startSync or startSyncAll, gets control back and returns job.id
runJobSync(W) ==
    LET n == Min(PROPERTY_CONCURRENCY, Len(W.job.properties))
        t == [pc |-> "running", index |-> 0, workers |-> n,
              activeProperties |-> <<>>, props |-> EmptyFn]
        W1 == [W EXCEPT !.job = SetStatus(@, "syncing"), !.t = t]
    IN startPropertyWorkers(W1, n)

\* runJob up to the point where every promise it made ready has run
runJob(W) ==
    LET S == runJobSync(W)
    IN IF Len(W.job.properties) = 0 THEN finishJob(S) ELSE drain(S)


\* ----------------------------------------------------------- fetch client
\* db.insertSearchAnalyticsBatch of the rows of chunk k, then the worker's
\* loop; a write on a closed handle throws inside the chunk worker
writeChunk(W, i, k) ==
    LET P == W.t.props[i]
        c == P.fetch[k].chunkRows
        site == P.siteUrl
        to == P.chunks[k].to
        rest == [W EXCEPT !.t.props[i].fetch = Without(@, k)]
    IN IF c = 0
       THEN afterChunk(rest, i)
       ELSE IF ~P.dbOpen
            THEN chunkThrows(W, i, k)
            ELSE afterChunk(
                   [rest EXCEPT !.t.props[i].propRowsFetched = @ + c,
                                !.t.props[i].propRowsInserted = @ + c,
                                !.job.rowsFetched = @ + c,
                                !.job.stored = @ \cup {<<i, k>>},
                                !.store[site].lastDate =
                                    IF @ = NoDate \/ @ < to THEN to ELSE @,
                                !.store[site].written = @ \cup {P.chunks[k]}], i)

\* fetchSearchAnalytics resumes with a response of r rows: onPage, then
\* either the next request or the end of the chunk's fetch
pageArrives(W, i, k, r) ==
    LET P == W.t.props[i]
        f == [P.fetch[k] EXCEPT !.totalRows = @ + r,
                                !.chunkRows = @ + r,
                                !.attempt = 0]
        W1 == IF r > 0
              THEN [W EXCEPT !.job.apiCallsMade = @ + 1,
                             !.job.estimatedTotalRows =
                                 IF r = ROW_LIMIT
                                 THEN (IF @ = NoEstimate THEN 0 ELSE @) + ROW_LIMIT
                                 ELSE @]
              ELSE W
    IN IF r < ROW_LIMIT \/ P.aborted
       THEN writeChunk([W1 EXCEPT !.t.props[i].fetch[k] = f,
                                  !.job.fetched = IF f.chunkRows > 0
                                                  THEN @ \cup {<<i, k>>} ELSE @],
                       i, k)
       ELSE [W1 EXCEPT !.t.props[i].fetch[k] = [f EXCEPT !.startRow = @ + r]]

\* withRetry catches an error of the request
errorArrives(W, i, k, retryable) ==
    LET f == W.t.props[i].fetch[k]
    IN IF ~retryable \/ f.attempt = MAX_RETRIES
       THEN chunkThrows(W, i, k)
       ELSE [W EXCEPT !.t.props[i].fetch[k].phase = "backoff"]

\* ---------------------------------------------------------------- status
NoError == [text |-> "", failCount |-> 0, total |-> 0]

\* the contents of the array a status object's results field refers to
Deref(r) == IF r.ref = NoId THEN <<>> ELSE heap[r.ref].results

jobToStatus(a) ==
    LET job == heap[a]
    IN [jobId |-> job.id,
        status |-> job.status,
        totalProperties |-> job.totalProperties,
        completedProperties |-> job.completedProperties,
        currentProperty |-> job.currentProperty,
        rowsFetched |-> job.rowsFetched,
        estimatedTotalRows |-> job.estimatedTotalRows,
        apiCallsMade |-> job.apiCallsMade,
        results |-> [ref |-> a],
        error |-> IF job.error = <<>> THEN NoError
                  ELSE [text |-> "partial", failCount |-> job.error[1],
                        total |-> job.error[2]]]

\* a not-found literal that carries no message
notFoundSilent(jobId) ==
    [jobId |-> jobId,
     status |-> "failed",
     totalProperties |-> 0,
     completedProperties |-> 0,
     currentProperty |-> <<>>,
     rowsFetched |-> 0,
     estimatedTotalRows |-> NoEstimate,
     apiCallsMade |-> 0,
     results |-> [ref |-> NoId],
     error |-> [text |-> "", failCount |-> 0, total |-> 0]]

\* the literal getStatus returns for an id the map does not hold
notFound(jobId) ==
    [jobId |-> jobId,
     status |-> "failed",
     totalProperties |-> 0,
     completedProperties |-> 0,
     currentProperty |-> <<>>,
     rowsFetched |-> 0,
     estimatedTotalRows |-> NoEstimate,
     apiCallsMade |-> 0,
     results |-> [ref |-> NoId],
     error |-> [text |-> "not found", failCount |-> 0, total |-> 0]]

getStatus(jobId) ==
    IF jobId \in DOMAIN jobs THEN jobToStatus(jobs[jobId]) ELSE notFound(jobId)

\* ----------------------------------------------------------- environment
\* what the environment does during one task: the site whose database fails
\* to open, and how DataRetention.prune ends
Quiet == [dbFail |-> "none", prune |-> "kept"]

\* chunks the property would be split into if it started now
plannedChunks(prop) ==
    LET endDate == IF prop.endDate = NoDate THEN defaultEndDate ELSE prop.endDate
        lastDate == store[prop.siteUrl].lastDate
        startDate == IF prop.startDate # NoDate THEN prop.startDate
                     ELSE IF lastDate # NoDate
                          THEN isoDate(setDate(parseDate(lastDate), 1))
                          ELSE defaultStartDate
    IN IF prop.startDate = NoDate /\ lastDate # NoDate /\ startDate > endDate THEN 0
       ELSE IF daysBetween(startDate, endDate) > CHUNK_DAYS
            THEN Len(buildChunks(startDate, endDate))
            ELSE 1

RECURSIVE plannedTotal(_)
plannedTotal(props) ==
    IF props = <<>> THEN 0 ELSE plannedChunks(Head(props)) + plannedTotal(Tail(props))

NewW(job, t, st, o) ==
    [job |-> job, t |-> t, store |-> st, q |-> <<>>, o |-> o,
     fault |-> FALSE, pruneRan |-> FALSE]

NoTask == [pc |-> "none"]

\* the sites whose database may fail to open during a task on `job`: those
\* of the properties not started yet
FailSites(job, index) ==
    IF quota.faults > 0
    THEN {job.properties[x].siteUrl : x \in (index + 1) .. Len(job.properties)}
    ELSE {}

\* how the prune of a task may end, given that the task W0 ran one or not
PruneEnds(W0) == IF W0.pruneRan THEN {"kept", "deleted", "threw"} ELSE {"kept"}

\* the oracle's failure, when it offers one, was used
Honest(W) == W.o.dbFail = "none" \/ W.fault

\* ---------------------------------------------------------------- actions
\* createJob and runJob, as startSync and startSyncAll call them
Launch(properties, dbFail, op, arg) ==
    LET id == nextId
        R == createJob([jobs |-> jobs, jobOrder |-> jobOrder], heap, id, properties)
        W == runJob(NewW(NewJob(id, properties), NoTask, store,
                         [dbFail |-> dbFail, prune |-> "kept"]))
        S == runJobSync(NewW(NewJob(id, properties), NoTask, store,
                             [dbFail |-> dbFail, prune |-> "kept"]))
        n == plannedTotal(properties)
    IN /\ n <= quota.chunks
       /\ Honest(W)
       /\ jobs' = R.jobs
       /\ jobOrder' = R.jobOrder
       /\ heap' = With(heap, id, W.job)
       /\ task' = With(task, id, W.t)
       /\ store' = W.store
       /\ nextId' = nextId + 1
       /\ ret' = [op |-> op, arg |-> arg, val |-> id,
                  at |-> [registered |-> id \in DOMAIN R.jobs,
                          status |-> S.job.status,
                          apiCallsMade |-> S.job.apiCallsMade,
                          completedProperties |-> S.job.completedProperties]]
       /\ quota' = [quota EXCEPT !.jobs = @ - 1, !.chunks = @ - n,
                                 !.faults = IF W.fault THEN @ - 1 ELSE @]
       /\ UNCHANGED <<held, scenario, table, retry, pool, paging>>

StartSync(args) ==
    /\ quota.jobs > 0
    /\ \E dbFail \in {"none"} \cup FailSites([properties |-> <<args>>], 0) :
           Launch(<<args>>, dbFail, "startSync", args)

\* a startSyncAll that passes the site urls on and nothing else
propertyArgsBare(args, found) ==
    [x \in DOMAIN found |->
        [siteUrl |-> found[x], startDate |-> NoDate, endDate |-> NoDate,
         dimensions |-> <<>>, searchType |-> "none"]]

\* startSyncAll's properties.map(...)
propertyArgs(args, found) ==
    [x \in DOMAIN found |->
        [siteUrl |-> found[x], startDate |-> args.startDate, endDate |-> args.endDate,
         dimensions |-> args.dimensions, searchType |-> args.searchType]]

\* startSyncAll once listProperties has answered with `found`
StartSyncAll(args, found) ==
    /\ quota.jobs > 0
    /\ LET properties == propertyArgs(args, found)
       IN \E dbFail \in {"none"} \cup FailSites([properties |-> properties], 0) :
              Launch(properties, dbFail, "startSyncAll", [args |-> args, found |-> found])

\* listProperties throws: startSyncAll rejects before createJob
StartSyncAllFails ==
    /\ scenario.reads
    /\ ret' = [op |-> "startSyncAllError", arg |-> NoId, val |-> NoId]
    /\ UNCHANGED <<jobs, jobOrder, heap, task, store, nextId, held, scenario, quota, table, retry, pool, paging>>

GetStatus(jobId) ==
    /\ scenario.reads
    /\ ret' = [op |-> "getStatus", arg |-> jobId, val |-> getStatus(jobId)]
    /\ UNCHANGED <<jobs, jobOrder, heap, task, store, nextId, held, scenario, quota, table, retry, pool, paging>>

\* the caller of the last getStatus keeps the object it was given
Keep ==
    /\ ret.op = "getStatus"
    /\ quota.holds > 0
    /\ held' = [kept |-> TRUE, status |-> ret.val, seen |-> Deref(ret.val.results)]
    /\ quota' = [quota EXCEPT !.holds = @ - 1]
    /\ ret' = NoRet
    /\ UNCHANGED <<jobs, jobOrder, heap, task, store, nextId, scenario, table, retry, pool, paging>>

\* getStatus() with no id
GetStatusAll ==
    /\ scenario.reads
    /\ ret' = [op |-> "getStatusAll", arg |-> NoId,
               val |-> [x \in DOMAIN jobOrder |-> jobToStatus(jobs[jobOrder[x]])]]
    /\ UNCHANGED <<jobs, jobOrder, heap, task, store, nextId, held, scenario, quota, table, retry, pool, paging>>

\* a cancelJob that accepts every job of the registry
cancelKnown(jobId) == jobId \in DOMAIN jobs

\* cancelJob's two guards
cancelAccepted(jobId) ==
    /\ jobId \in DOMAIN jobs
    /\ heap[jobs[jobId]].status \notin Terminal

\* a cancelJob that sets the status and leaves the flag
cancelStatusOnly(job) == SetStatus(job, "cancelled")

\* cancelJob's two assignments
cancel(job) == SetStatus([job EXCEPT !.cancelled = TRUE], "cancelled")

CancelJob(jobId) ==
    LET ok == cancelAccepted(jobId)
    IN /\ IF ok THEN quota.cancels > 0 ELSE scenario.reads
       /\ heap' = IF ok
                  THEN [heap EXCEPT ![jobs[jobId]] = cancel(@)]
                  ELSE heap
       /\ ret' = [op |-> "cancelJob", arg |-> jobId, val |-> ok]
       /\ quota' = IF ok THEN [quota EXCEPT !.cancels = @ - 1] ELSE quota
       /\ UNCHANGED <<jobs, jobOrder, task, store, nextId, held, scenario, table, retry, pool, paging>>

Commit(a, W, fulls, faults) ==
    /\ Honest(W)
    /\ heap' = [heap EXCEPT ![a] = W.job]
    /\ task' = [task EXCEPT ![a] = W.t]
    /\ store' = W.store
    /\ ret' = NoRet
    /\ quota' = [quota EXCEPT !.fulls = @ - fulls,
                              !.faults = @ - faults - (IF W.fault THEN 1 ELSE 0)]
    /\ UNCHANGED <<jobs, jobOrder, nextId, held, scenario, table, retry, pool, paging>>

InFlight(a, i, k) == task[a].props[i].fetch[k].phase = "inflight"

\* a response with r rows arrives for the request of chunk k
PageReturn(a, i, k, r) ==
    /\ InFlight(a, i, k)
    /\ r = ROW_LIMIT => quota.fulls > 0
    /\ LET W0 == drain(pageArrives(NewW(heap[a], task[a], store, Quiet), i, k, r))
       IN \E dbFail \in {"none"} \cup FailSites(heap[a], task[a].index),
             prune \in PruneEnds(W0) :
              Commit(a, drain(pageArrives(NewW(heap[a], task[a], store,
                                               [dbFail |-> dbFail, prune |-> prune]),
                                          i, k, r)),
                     IF r = ROW_LIMIT THEN 1 ELSE 0, 0)

\* the request of chunk k fails
ErrorReturn(a, i, k, retryable) ==
    /\ InFlight(a, i, k)
    /\ quota.faults > 0
    /\ \E dbFail \in {"none"} \cup
                     (IF quota.faults > 1 THEN FailSites(heap[a], task[a].index) ELSE {}) :
           Commit(a, drain(errorArrives(NewW(heap[a], task[a], store,
                                             [dbFail |-> dbFail, prune |-> "kept"]),
                                        i, k, retryable)), 0, 1)

\* withRetry's back-off timer expires: the request is issued again
RetryFire(a, i, k) ==
    /\ task[a].props[i].fetch[k].phase = "backoff"
    /\ task' = [task EXCEPT ![a].props[i].fetch[k] =
                   [@ EXCEPT !.attempt = @ + 1, !.phase = "inflight"]]
    /\ ret' = NoRet
    /\ UNCHANGED <<jobs, jobOrder, heap, store, nextId, held, scenario, quota, table, retry, pool, paging>>

\* the setInterval callback of a property sync
CheckCancel(a, i) ==
    /\ task[a].props[i].timer
    /\ task' = [task EXCEPT ![a].props[i].aborted = @ \/ heap[a].cancelled]
    /\ ret' = NoRet
    /\ UNCHANGED <<jobs, jobOrder, heap, store, nextId, held, scenario, quota, table, retry, pool, paging>>

\* dimensions and searchType as absent
NoOptions == [dimensions |-> <<>>, searchType |-> "none"]

\* the dimensions and searchType callers pass: none, and in the runs on the
\* changed clock also a pair of their own
SyncOptions ==
    IF scenario.name = "clocks"
    THEN {NoOptions, [dimensions |-> <<"query", "date">>, searchType |-> "image"]}
    ELSE {NoOptions}

SyncArgs ==
    {[siteUrl |-> s, startDate |-> d, endDate |-> e,
      dimensions |-> o.dimensions, searchType |-> o.searchType] :
        s \in scenario.sites, d \in scenario.dates, e \in scenario.ends, o \in SyncOptions}

SyncAllArgs ==
    {[startDate |-> d, endDate |-> e,
      dimensions |-> o.dimensions, searchType |-> o.searchType] :
        d \in scenario.dates, e \in scenario.ends, o \in SyncOptions}

PageRows == scenario.rows \cup {ROW_LIMIT}

\* the ids callers ask about: the first job created, the latest ones, and
\* one no job was given
CallIds == {1} \cup {id \in (nextId - 2) .. nextId : id >= 1}

Next ==
    \/ \E args \in SyncArgs : StartSync(args)
    \/ \E args \in SyncAllArgs, found \in scenario.found : StartSyncAll(args, found)
    \/ StartSyncAllFails
    \/ \E jobId \in CallIds : GetStatus(jobId)
    \/ Keep
    \/ GetStatusAll
    \/ \E jobId \in CallIds : CancelJob(jobId)
    \/ \E a \in DOMAIN task : \E i \in DOMAIN task[a].props :
         \E k \in DOMAIN task[a].props[i].fetch : \E r \in PageRows :
           PageReturn(a, i, k, r)
    \/ \E a \in DOMAIN task : \E i \in DOMAIN task[a].props :
         \E k \in DOMAIN task[a].props[i].fetch : \E retryable \in BOOLEAN :
           ErrorReturn(a, i, k, retryable)
    \/ \E a \in DOMAIN task : \E i \in DOMAIN task[a].props :
         \E k \in DOMAIN task[a].props[i].fetch : RetryFire(a, i, k)
    \/ \E a \in DOMAIN task : \E i \in DOMAIN task[a].props : CheckCancel(a, i)

\* ---------------------------------------------------------------- scenarios
\* a process that runs on UTC
Utc == [std |-> 0, spring |-> Never, fall |-> Never]

\* a process an hour ahead of UTC whose clock went forward an hour at 01:00
\* UTC of the latest day the store of site "c" holds
Summer == [std |-> 1, spring |-> parseDate(Today - 10) + 1, fall |-> Never]

\* one job with upstream failures, full pages and cancellation
Calls ==
    [name |-> "calls", reads |-> FALSE, ends |-> {NoDate}, zone |-> Utc,
     sites |-> {"a", "b"}, dates |-> {NoDate, Today - 30},
     found |-> {<<>>, <<"a", "b", "c">>}, rows |-> {0, ShortPage},
     jobs |-> 1, chunks |-> MaxChunks, faults |-> MaxFaults,
     fulls |-> MaxFullPages, cancels |-> MaxCancels, holds |-> 0]

\* one job, and a caller that asks for its status and keeps a status object
Watch ==
    [name |-> "watch", reads |-> TRUE, ends |-> {NoDate}, zone |-> Utc,
     sites |-> {"a", "b"}, dates |-> {NoDate, Today - 30},
     found |-> {<<>>, <<"a", "b">>}, rows |-> {ShortPage},
     jobs |-> 1, chunks |-> MaxChunks, faults |-> MaxFaults,
     fulls |-> 0, cancels |-> MaxCancels, holds |-> MaxHolds]

\* wide jobs: every property three chunks
FanOut ==
    [name |-> "fanout", reads |-> FALSE, ends |-> {NoDate}, zone |-> Utc,
     sites |-> {"a"}, dates |-> {Today - 200},
     found |-> {<<"a", "b", "c">>}, rows |-> {ShortPage},
     jobs |-> MaxJobs, chunks |-> MaxFanOut, faults |-> 1,
     fulls |-> 0, cancels |-> 0, holds |-> 0]

\* syncs of one job where the clock changed: resumed ones, and ones whose
\* first chunk ends on the day of the change
Clocks ==
    [name |-> "clocks", reads |-> FALSE, ends |-> {NoDate, Today - 10}, zone |-> Summer,
     sites |-> {"b", "c"}, dates |-> {NoDate, Today - 10 - (CHUNK_DAYS - 1)},
     found |-> {<<"b", "c">>}, rows |-> {0, ShortPage},
     jobs |-> 1, chunks |-> MaxChunks, faults |-> 0,
     fulls |-> 0, cancels |-> 0, holds |-> 0]

\* one property of four chunks, one more than its chunk workers, with an
\* upstream failure and cancellation
Long ==
    [name |-> "long", reads |-> FALSE, ends |-> {NoDate}, zone |-> Utc,
     sites |-> {"a"}, dates |-> {Today - 3 * CHUNK_DAYS - 30},
     found |-> {<<>>}, rows |-> {ShortPage},
     jobs |-> 1, chunks |-> MaxChunks + 1, faults |-> MaxFaults,
     fulls |-> 0, cancels |-> MaxCancels, holds |-> 0]

\* a registry that already holds MAX_JOB_HISTORY jobs
History ==
    [name |-> "history", reads |-> TRUE, ends |-> {NoDate}, zone |-> Utc,
     sites |-> {"b", "c"}, dates |-> {NoDate},
     found |-> {<<>>}, rows |-> {ShortPage},
     jobs |-> MaxJobs - 1, chunks |-> 1, faults |-> 0,
     fulls |-> 0, cancels |-> MaxCancels, holds |-> 0]

Budget(sc) ==
    [jobs |-> sc.jobs, chunks |-> sc.chunks, faults |-> sc.faults,
     fulls |-> sc.fulls, cancels |-> sc.cancels, holds |-> sc.holds]

InitStore == [s \in Sites |->
                 [lastDate |-> CASE s = "a" -> NoDate
                                 [] s = "b" -> Today
                                 [] OTHER -> Today - 10,
                  written |-> {}]]

\* the state after construction
Fresh ==
    /\ jobs = EmptyFn
    /\ jobOrder = <<>>
    /\ heap = EmptyFn
    /\ task = EmptyFn
    /\ nextId = 1

\* the state after MAX_JOB_HISTORY calls of startSync: the first for site
\* `first` ("c": one request, still in flight; "b": nothing to fetch), the
\* others for site "b"
Started(id, site) ==
    runJob(NewW(NewJob(id, <<[siteUrl |-> site, startDate |-> NoDate,
                             endDate |-> NoDate, dimensions |-> <<>>,
                             searchType |-> "none"]>>), NoTask, InitStore, Quiet))

Aged(first) ==
    /\ jobs = [id \in 1 .. MAX_JOB_HISTORY |-> id]
    /\ jobOrder = [id \in 1 .. MAX_JOB_HISTORY |-> id]
    /\ heap = [id \in 1 .. MAX_JOB_HISTORY |->
                  Started(id, IF id = 1 THEN first ELSE "b").job]
    /\ task = [id \in 1 .. MAX_JOB_HISTORY |->
                  Started(id, IF id = 1 THEN first ELSE "b").t]
    /\ nextId = MAX_JOB_HISTORY + 1

Init ==
    /\ store = InitStore
    /\ ret = NoRet
    /\ held = NoHeld
    /\ table = <<>>
    /\ retry = NoRetry
    /\ pool = NoPool
    /\ paging = NoPaging
    /\ \/ scenario = Calls /\ Fresh
       \/ scenario = Watch /\ Fresh
       \/ scenario = FanOut /\ Fresh
       \/ scenario = Clocks /\ Fresh
       \/ scenario = Long /\ Fresh
       \/ scenario = History /\ \E first \in {"b", "c"} : Aged(first)
    /\ quota = Budget(scenario)

Spec == Init /\ [][Next]_vars

\* ------------------------------------------------------------ stored rows
(* The search_analytics table of one site at row level.  A text is a       *)
(* string, null is Null, a date is its day number and the empty date       *)
(* string is NoDate.                                                       *)
DEFAULT_DIMS == <<"query", "page", "date", "device", "country">>

TARGET_MIN_IMPRESSIONS == 5

Null == "null"

Keyed == {"query", "page", "device", "country"}

\* row.keys[idx] || null: the key of dimension dim, when the row has one
\* that is not empty
hasKey(row, dimensions, dim) ==
    \E idx \in DOMAIN dimensions :
        /\ dimensions[idx] = dim
        /\ idx \in DOMAIN row.keys
        /\ row.keys[idx] # (IF dim = "date" THEN NoDate ELSE "")

keyOf(row, dimensions, dim) ==
    row.keys[CHOOSE idx \in DOMAIN dimensions :
                 dimensions[idx] = dim /\ idx \in DOMAIN row.keys]

transformRow(row, dimensions) ==
    LET keyMap == [dim \in Keyed |->
                      IF hasKey(row, dimensions, dim)
                      THEN keyOf(row, dimensions, dim) ELSE Null]
    IN [date |-> IF hasKey(row, dimensions, "date")
                 THEN keyOf(row, dimensions, "date") ELSE NoDate,
        query |-> keyMap.query,
        page |-> keyMap.page,
        device |-> keyMap.device,
        country |-> keyMap.country,
        clicks |-> row.metrics[1],
        impressions |-> row.metrics[2]]

\* idx_sa_unique: two rows collide when they agree on the five indexed
\* columns and none of them is NULL (the index holds NULLs as distinct)
collide(r, s) ==
    /\ r.date = s.date
    /\ \A dim \in Keyed : r[dim] # Null /\ r[dim] = s[dim]

\* INSERT OR REPLACE of one row: the rows it collides with go, the row is
\* added with a new rowid
insertOrReplace(t, row) == SelectSeq(t, LAMBDA s : ~collide(s, row)) \o <<row>>

\* insertSearchAnalyticsBatch: the table after the transaction, and the
\* count it returns
RECURSIVE insertSearchAnalyticsBatch(_, _)
insertSearchAnalyticsBatch(t, rows) ==
    IF rows = <<>>
    THEN [table |-> t, inserted |-> 0]
    ELSE LET done == insertSearchAnalyticsBatch(insertOrReplace(t, Head(rows)),
                                                Tail(rows))
         IN [done EXCEPT !.inserted = @ + 1]

\* String.toLowerCase and SQL LOWER, on the codes in use
lower(c) == IF c = "GBR" THEN "gbr" ELSE c

\* LOWER(country) IN (...) and NOT IN (...): a NULL country matches neither,
\* but an empty list makes IN false and NOT IN true for every row
inTargets(row, lowerTargets) ==
    lowerTargets # {} /\ row.country # Null /\ lower(row.country) \in lowerTargets

notInTargets(row, lowerTargets) ==
    lowerTargets = {} \/ (row.country # Null /\ lower(row.country) \notin lowerTargets)

\* the cutoff date of a prune that runs at instant now
pruneCutoff(now, recentDays) == isoDate(setDate(now, 0 - recentDays))

\* a non-target statement without its test on clicks
deleteNonTargetAnyClicks(row, cutoff, lowerTargets) ==
    row.date < cutoff /\ notInTargets(row, lowerTargets)

\* the WHERE clause of step 1
deleteTarget(row, cutoff, minImpressions, lowerTargets) ==
    /\ row.date < cutoff
    /\ row.clicks = 0
    /\ row.impressions < minImpressions
    /\ inTargets(row, lowerTargets)

\* the WHERE clause of step 2
deleteNonTarget(row, cutoff, lowerTargets) ==
    /\ row.date < cutoff
    /\ row.clicks = 0
    /\ notInTargets(row, lowerTargets)

\* DataRetention.prune with policy p at instant now: the table after the two
\* DELETE statements, and rowsDeleted
prune(t, p, now) ==
    LET cutoff == pruneCutoff(now, p.recentDays)
        lowerTargets == {lower(c) : c \in p.targetCountries}
        t1 == SelectSeq(t, LAMBDA r :
                  ~deleteTarget(r, cutoff, p.targetMinImpressions, lowerTargets))
        t2 == IF p.pruneNonTargetZeroClicks
              THEN SelectSeq(t1, LAMBDA r : ~deleteNonTarget(r, cutoff, lowerTargets))
              ELSE t1
    IN [table |-> t2, rowsBefore |-> Len(t), rowsDeleted |-> Len(t) - Len(t2),
        rowsAfter |-> Len(t) - (Len(t) - Len(t2))]

\* a preview that counts rule 2 whether or not the policy turns it on
previewBothRules(t, p, now) ==
    LET cutoff == pruneCutoff(now, p.recentDays)
        lowerTargets == {lower(c) : c \in p.targetCountries}
        targetLowValue ==
            Cardinality({x \in DOMAIN t : deleteTarget(t[x], cutoff, p.targetMinImpressions,
                                             lowerTargets)})
        nonTargetZeroClick ==
            Cardinality({x \in DOMAIN t : deleteNonTarget(t[x], cutoff, lowerTargets)})
        wouldDelete == targetLowValue + nonTargetZeroClick
    IN [totalRows |-> Len(t), wouldDelete |-> wouldDelete,
        wouldKeep |-> Len(t) - wouldDelete,
        reductionPct |-> IF Len(t) > 0
                         THEN (200 * wouldDelete + Len(t)) \div (2 * Len(t)) ELSE 0,
        targetLowValue |-> targetLowValue,
        nonTargetZeroClick |-> nonTargetZeroClick,
        recentProtected |-> Cardinality({x \in DOMAIN t : t[x].date >= cutoff})]

\* DataRetention.preview with policy p at instant now
preview(t, p, now) ==
    LET cutoff == pruneCutoff(now, p.recentDays)
        lowerTargets == {lower(c) : c \in p.targetCountries}
        targetLowValue ==
            Cardinality({x \in DOMAIN t : deleteTarget(t[x], cutoff, p.targetMinImpressions,
                                             lowerTargets)})
        nonTargetZeroClick ==
            Cardinality({x \in DOMAIN t : deleteNonTarget(t[x], cutoff, lowerTargets)})
        wouldDelete == targetLowValue
                           + (IF p.pruneNonTargetZeroClicks THEN nonTargetZeroClick ELSE 0)
    IN [totalRows |-> Len(t), wouldDelete |-> wouldDelete,
        wouldKeep |-> Len(t) - wouldDelete,
        reductionPct |-> IF Len(t) > 0
                         THEN (200 * wouldDelete + Len(t)) \div (2 * Len(t)) ELSE 0,
        targetLowValue |-> targetLowValue,
        nonTargetZeroClick |-> nonTargetZeroClick,
        recentProtected |-> Cardinality({x \in DOMAIN t : t[x].date >= cutoff})]

\* the rows upstream answers with, for a request of `dimensions`
ApiRows(dimensions) ==
    [keys : IF dimensions = DEFAULT_DIMS
            THEN {<<"q", "/", date, "MOBILE", country>> :
                     date \in {Today - RECENT_DAYS - 2, Today - RECENT_DAYS},
                     country \in {"gbr", "ind"}}
            ELSE {<<"q", date>> : date \in {Today - RECENT_DAYS - 2}},
     metrics : {<<0, 1>>, <<0, TARGET_MIN_IMPRESSIONS>>, <<1, TARGET_MIN_IMPRESSIONS>>}]

\* the rows of one response: one row, or two rows of different dates
Pages(dimensions) ==
    {<<row>> : row \in ApiRows(dimensions)}
        \cup {page \in ApiRows(dimensions) \X ApiRows(dimensions) :
                 /\ page[1].keys[Len(dimensions)] = page[2].keys[Len(dimensions)]
                 /\ page[1].metrics = page[2].metrics
                 /\ page[1].keys # page[2].keys}

\* the batches written: the dimensions asked for, and the page received
Batches ==
    UNION {{[dimensions |-> dimensions, page |-> page] : page \in Pages(dimensions)} :
              dimensions \in {DEFAULT_DIMS, <<"query", "date">>}}

Policies ==
    [recentDays : {RECENT_DAYS, RECENT_DAYS + 1},
     targetMinImpressions : {TARGET_MIN_IMPRESSIONS},
     pruneNonTargetZeroClicks : BOOLEAN,
     targetCountries : {{"GBR"}, {}}]

\* the instants a prune runs at: noon and 23:00 UTC of today
Nows == {parseDate(Today) + 12, parseDate(Today) + 23}

\* a chunk's rows are written
InsertBatch(dimensions, page) ==
    LET rows == [x \in DOMAIN page |-> transformRow(page[x], dimensions)]
        done == insertSearchAnalyticsBatch(table, rows)
    IN /\ Len(done.table) <= MaxRows
       /\ table' = done.table
       /\ ret' = [op |-> "insert", arg |-> NoId, val |-> done.inserted]
       /\ UNCHANGED <<jobs, jobOrder, heap, task, store, nextId, held, scenario, quota, retry, pool, paging>>

\* the prune tool, or the prune after a sync
Prune(p, now) ==
    LET done == prune(table, p, now)
    IN /\ table' = done.table
       /\ ret' = [op |-> "prune", arg |-> pruneCutoff(now, p.recentDays),
                  val |-> done.rowsDeleted]
       /\ UNCHANGED <<jobs, jobOrder, heap, task, store, nextId, held, scenario, quota, retry, pool, paging>>

\* the prune tool with preview: true
Preview(p, now) ==
    /\ ret' = [op |-> "preview", arg |-> pruneCutoff(now, p.recentDays),
               val |-> preview(table, p, now)]
    /\ UNCHANGED <<jobs, jobOrder, heap, task, store, nextId, held, scenario, quota,
                   table, retry, pool, paging>>

StoreNext ==
    \/ \E batch \in Batches : InsertBatch(batch.dimensions, batch.page)
    \/ \E p \in Policies, now \in Nows : Prune(p, now)
    \/ \E p \in Policies, now \in Nows : Preview(p, now)

\* a process five hours behind UTC whose clock went forward an hour ten days
\* ago
West == [std |-> 0 - 5, spring |-> parseDate(Today - 10) + 7, fall |-> Never]

\* the store alone, in a process of time zone `zone`
Rows(zone) ==
    [name |-> "rows", reads |-> FALSE, ends |-> {NoDate}, zone |-> zone,
     sites |-> {"a"}, dates |-> {NoDate},
     found |-> {<<>>}, rows |-> {ShortPage},
     jobs |-> 0, chunks |-> 0, faults |-> 0,
     fulls |-> 0, cancels |-> 0, holds |-> 0]

StoreInit ==
    /\ store = InitStore
    /\ ret = NoRet
    /\ held = NoHeld
    /\ table = <<>>
    /\ retry = NoRetry
    /\ pool = NoPool
    /\ paging = NoPaging
    /\ scenario \in {Rows(zone) : zone \in {Utc, West}}
    /\ Fresh
    /\ quota = Budget(scenario)

StoreSpec == StoreInit /\ [][StoreNext]_vars

\* ------------------------------------------------------------------ claims
Active(a) == heap[a].status \notin Terminal

\* the requests of job object a that are in flight
requestsInFlight(a) ==
    {x \in UNION {{<<i, k>> : k \in DOMAIN task[a].props[i].fetch} :
                     i \in DOMAIN task[a].props} :
        task[a].props[x[1]].fetch[x[2]].phase = "inflight"}

\* the statuses a job may take after status `from`
After(from) ==
    CASE from = "queued" -> {"syncing"}
      [] from = "syncing" -> Terminal
      [] OTHER -> {from}

\* C1: every value assigned to a job's status follows the previous one along
\* queued -> syncing -> {completed | failed | cancelled}: the first is
\* queued, no assignment moves backwards or from queued to a terminal
\* status, and a terminal status is only ever assigned again, never replaced.
C1_StatusPath ==
    \A a \in DOMAIN heap :
        LET log == heap[a].statusLog
        IN /\ log[1] = "queued"
           /\ heap[a].status = log[Len(log)]
           /\ \A x \in 1 .. Len(log) - 1 : log[x + 1] \in After(log[x])

\* a job that cancelJob marked cancelled and runJob then ended as cancelled
C1_Witness ==
    \E a \in DOMAIN heap :
        heap[a].statusLog = <<"queued", "syncing", "cancelled", "cancelled">>

\* the status runJob's last lines give a job with these results and flag
expectedStatus(job) ==
    IF job.cancelled THEN "cancelled"
    ELSE IF Len(job.results) >= 1
            /\ \A x \in DOMAIN job.results : job.results[x].status = "failed"
         THEN "failed"
         ELSE "completed"

\* C2: once runJob has finished, the status is cancelled if the flag is set,
\* else failed if there is a result and every result is failed, else
\* completed; a job of no properties ends completed with no results.
C2_FinalStatus ==
    \A a \in DOMAIN task :
        task[a].pc = "done" =>
            /\ heap[a].status = expectedStatus(heap[a])
            /\ heap[a].totalProperties = 0 =>
                   heap[a].status = "completed" /\ heap[a].results = <<>>

\* a finished job that is cancelled although one of its properties completed
C2_Witness ==
    \E a \in DOMAIN task :
        /\ task[a].pc = "done"
        /\ heap[a].cancelled
        /\ \E x \in DOMAIN heap[a].results : heap[a].results[x].status = "completed"

\* C3: a cancelJob(jobId) call returns true exactly when the registry holds
\* jobId and the job is not completed, failed or cancelled, and then the
\* job's flag is set and the registry keeps its keys; otherwise it returns
\* false and registry, job objects and their activations are unchanged.
C3_CancelJob ==
    [][\A jobId \in CallIds :
          (ret'.op = "cancelJob" /\ ret'.arg = jobId) =>
              LET live == jobId \in DOMAIN jobs
                          /\ heap[jobs[jobId]].status
                                 \notin {"completed", "failed", "cancelled"}
              IN /\ ret'.val = live
                 /\ live => /\ heap'[jobs[jobId]].cancelled
                            /\ jobs' = jobs /\ jobOrder' = jobOrder
                 /\ ~live => UNCHANGED <<jobs, jobOrder, heap, task, store>>]_vars

\* a second cancelJob on a job already cancelled has returned false
C3_Witness ==
    /\ ret.op = "cancelJob"
    /\ ret.val = FALSE
    /\ ret.arg \in DOMAIN jobs
    /\ heap[jobs[ret.arg]].cancelled

\* C4: the flag is never reset, and in every state it is set if and only if
\* the status is cancelled.
C4_CancelledFlag ==
    /\ [](\A a \in DOMAIN heap : heap[a].cancelled <=> heap[a].status = "cancelled")
    /\ [][\A a \in DOMAIN heap : heap[a].cancelled => heap'[a].cancelled]_vars

\* a cancelled job whose runJob has not finished yet
C4_Witness ==
    \E a \in DOMAIN task :
        /\ heap[a].cancelled
        /\ task[a].pc = "running"
        /\ requestsInFlight(a) # {}

\* C5: getStatus(jobId) for an id the registry does not hold returns the
\* failed-shaped object with that id, zero counters, no results and an
\* error message, and changes nothing.
C5_UnknownId ==
    [][\A jobId \in CallIds :
          (ret'.op = "getStatus" /\ ret'.arg = jobId /\ jobId \notin DOMAIN jobs) =>
              /\ ret'.val.jobId = jobId
              /\ ret'.val.status = "failed"
              /\ ret'.val.totalProperties = 0
              /\ ret'.val.completedProperties = 0
              /\ ret'.val.rowsFetched = 0
              /\ ret'.val.apiCallsMade = 0
              /\ ret'.val.results.ref = NoId
              /\ ret'.val.error.text # ""
              /\ UNCHANGED <<jobs, jobOrder, heap, task, store>>]_vars

\* getStatus was asked about a job that pruneHistory had evicted
C5_Witness ==
    /\ ret.op = "getStatus"
    /\ ret.arg < nextId
    /\ ret.arg \notin DOMAIN jobs

\* C6: the results list of a status object getStatus returned holds what it
\* held when it was returned.
C6_Snapshot ==
    held.kept => Deref(held.status.results) = held.seen

\* C7: pruning removes only jobs that are completed, failed or cancelled,
\* oldest first: the ids a step removes are the first ids of jobOrder, in
\* order, and a job that is queued or syncing stays.
C7_Eviction ==
    [][LET gone == DOMAIN jobs \ DOMAIN jobs'
           n == Cardinality(gone)
       IN /\ gone = {jobOrder[x] : x \in 1 .. n}
          /\ \A id \in gone : heap[jobs[id]].status \in Terminal
          /\ \A id \in DOMAIN jobs : Active(jobs[id]) => id \in DOMAIN jobs'
          /\ nextId' # nextId =>
                 /\ nextId \in DOMAIN jobs'
                 /\ jobOrder' = SubSeq(Append(jobOrder, nextId), n + 1,
                                       Len(jobOrder) + 1)]_vars

\* a job was evicted while a later job of the registry is still syncing
C7_Witness ==
    /\ \E id \in 1 .. nextId - 1 : id \notin DOMAIN jobs
    /\ \E id \in DOMAIN jobs : Active(jobs[id])

\* C8: the registry holds at most MAX_JOB_HISTORY jobs that are completed,
\* failed or cancelled.
C8_TerminalCap ==
    Cardinality({id \in DOMAIN jobs : ~Active(jobs[id])}) <= MAX_JOB_HISTORY

\* C9: at most PROPERTY_CONCURRENCY x CHUNK_CONCURRENCY requests of one job
\* are in flight.
C9_JobBound ==
    \A a \in DOMAIN task :
        Cardinality(requestsInFlight(a)) <= PROPERTY_CONCURRENCY * CHUNK_CONCURRENCY

\* C10: at most PROPERTY_CONCURRENCY x CHUNK_CONCURRENCY requests of all
\* jobs together are in flight.
C10_SystemBound ==
    Cardinality(UNION {{<<a, x>> : x \in requestsInFlight(a)} : a \in DOMAIN task})
        <= PROPERTY_CONCURRENCY * CHUNK_CONCURRENCY

\* the results of job object a that are failed
failedResults(a) ==
    {x \in DOMAIN heap[a].results : heap[a].results[x].status = "failed"}

\* C11: a property whose pipeline throws contributes one failed result with
\* an error message; no property contributes two results; a job that ends
\* without cancellation has a result of every property; runJob itself never
\* fails.
C11_Isolation ==
    \A a \in DOMAIN heap :
        LET job == heap[a]
        IN /\ task[a].pc \in {"running", "done"}
           /\ \A x \in DOMAIN job.properties :
                  Cardinality({y \in DOMAIN job.results :
                                  job.results[y].siteUrl = job.properties[x].siteUrl}) <= 1
           /\ \A y \in failedResults(a) : job.results[y].error
           /\ (task[a].pc = "done" /\ ~job.cancelled) =>
                  /\ Len(job.results) = job.totalProperties
                  /\ job.completedProperties = job.totalProperties

\* a finished job in which a property completed after another had failed
C11_Witness ==
    \E a \in DOMAIN heap :
        /\ task[a].pc = "done"
        /\ heap[a].status = "completed"
        /\ \E y \in failedResults(a) :
               \E z \in DOMAIN heap[a].results :
                   z > y /\ heap[a].results[z].status = "completed"

\* C12: the job-level error is set exactly when the job ended without
\* cancellation and at least one, but not every, result is failed; it then
\* gives the number of failed results and of properties.
C12_PartialError ==
    \A a \in DOMAIN heap :
        LET job == heap[a]
            n == Cardinality(failedResults(a))
        IN /\ job.error # <<>> <=>
                  /\ task[a].pc = "done"
                  /\ ~job.cancelled
                  /\ 1 <= n /\ n < Len(job.results)
           /\ job.error # <<>> => job.error = <<n, job.totalProperties>>

\* a finished job that carries the summary of a partial failure
C12_Witness ==
    \E a \in DOMAIN heap :
        /\ heap[a].error # <<>>
        /\ heap[a].status = "completed"

\* C13: when the fetch of one chunk of a property fails, the failure is
\* confined to that chunk: the property's result reports the rows the other
\* chunks fetched and inserted (every result carries the rows its property
\* sync had fetched and written when the result was made)
C13_ChunkConfined ==
    \A a \in DOMAIN heap : \A y \in DOMAIN heap[a].results :
        LET r == heap[a].results[y]
        IN r.rowsInserted = r.kept /\ r.rowsFetched = r.kept

\* C14: a property synced with no explicit start date whose store holds data
\* up to D has every request inside [D+1, end]; with no stored data the range
\* starts at the default lookback date; with an explicit start date the store
\* is not consulted and the range starts at the explicit date
C14_ResumeRange ==
    \A a \in DOMAIN task : \A i \in DOMAIN task[a].props :
        LET P == task[a].props[i]
            prop == heap[a].properties[i]
        IN /\ prop.startDate # NoDate =>
                  ~P.consulted /\ P.chunks[1].from = prop.startDate
           /\ (prop.startDate = NoDate /\ P.lastDate = NoDate) =>
                  P.chunks[1].from = defaultStartDate
           /\ (prop.startDate = NoDate /\ P.lastDate # NoDate) =>
                  \A k \in DOMAIN P.fetch :
                      /\ P.lastDate + 1 <= P.chunks[k].from
                      /\ P.chunks[k].to <= P.endDate

\* C15: when a property's resume point D+1 is after the requested end date,
\* no fetch is issued for it (its sync never gets as far as its chunks), its
\* result is skipped with no rows, and a job whose properties were all
\* skipped ends completed with no error
C15_SkipPath ==
    \A a \in DOMAIN task :
        /\ \A i \in DOMAIN task[a].props :
               LET P == task[a].props[i]
               IN ~(P.consulted /\ P.lastDate # NoDate /\ P.lastDate + 1 > P.endDate)
        /\ \A y \in DOMAIN heap[a].results :
               LET r == heap[a].results[y]
               IN r.status = "skipped" =>
                      r.rowsFetched = 0 /\ r.rowsInserted = 0 /\ ~r.error
        /\ (/\ task[a].pc = "done"
            /\ ~heap[a].cancelled
            /\ \A y \in DOMAIN heap[a].results : heap[a].results[y].status = "skipped")
               => heap[a].status = "completed" /\ heap[a].error = <<>>

\* C16: once cancelJob has accepted a job, no property and no chunk of the job
\* that has not begun its fetch begins one, the job ends cancelled, and the
\* chunks written to the store stay there
C16_NoStartAfterCancel ==
    [][\A a \in DOMAIN heap : heap[a].cancelled =>
          /\ DOMAIN task'[a].props \subseteq DOMAIN task[a].props
          /\ \A i \in DOMAIN task'[a].props :
                 DOMAIN task'[a].props[i].fetch \subseteq DOMAIN task[a].props[i].fetch
          /\ task'[a].pc = "done" => heap'[a].status = "cancelled"
          /\ \A x \in DOMAIN heap[a].properties :
                 store[heap[a].properties[x].siteUrl].written
                     \subseteq store'[heap[a].properties[x].siteUrl].written]_vars

\* a cancelled job has ended; one of its chunks was written, another was
\* passed over by its chunk worker and never fetched
C16_Witness ==
    \E a \in DOMAIN heap :
        /\ heap[a].cancelled
        /\ heap[a].status = "cancelled"
        /\ task[a].pc = "done"
        /\ \E y \in DOMAIN heap[a].results :
               /\ heap[a].results[y].status = "cancelled"
               /\ heap[a].results[y].rowsInserted > 0
               /\ store[heap[a].results[y].siteUrl].written # {}
        /\ \E x \in DOMAIN heap[a].properties :
               /\ heap[a].properties[x].startDate = Today - 3 * CHUNK_DAYS - 30
               /\ \E k \in 1 .. CHUNK_CONCURRENCY : <<x, k>> \in heap[a].stored
               /\ <<x, CHUNK_CONCURRENCY + 1>> \notin heap[a].fetched

\* C17: once the periodic check has fired the abort signal of a property
\* sync, no further request is issued for it: no request of a new chunk, no
\* next page, and no retry of a failed request
C17_NoRequestAfterAbort ==
    [][\A a \in DOMAIN task : \A i \in DOMAIN task[a].props \cap DOMAIN task'[a].props :
          task[a].props[i].aborted =>
              \A k \in DOMAIN task'[a].props[i].fetch :
                  /\ k \in DOMAIN task[a].props[i].fetch
                  /\ task'[a].props[i].fetch[k].startRow = task[a].props[i].fetch[k].startRow
                  /\ task[a].props[i].fetch[k].phase = "backoff"
                         => task'[a].props[i].fetch[k].phase = "backoff"]_vars

\* C18: every chunk of a property sync whose fetch completed without error
\* and returned rows has its rows written to the store, whatever happens to
\* its sibling chunks and whether or not the job is cancelled
C18_FetchedIsStored ==
    \A a \in DOMAIN heap : heap[a].fetched \subseteq heap[a].stored

\* the rows of two tables are the same, each as often
sameRows(t, u) ==
    \A r \in Range(t) \cup Range(u) :
        Cardinality({x \in DOMAIN t : t[x] = r}) = Cardinality({x \in DOMAIN u : u[x] = r})

rowsOf(batch) ==
    [x \in DOMAIN batch.page |-> transformRow(batch.page[x], batch.dimensions)]

\* C19: writing a batch is idempotent (writing a batch whose rows the table
\* holds already leaves the rows and their metrics as they are), and the
\* table never holds two rows of the same (date, query, page, device,
\* country), rows with null dimensions included
C19_Idempotent ==
    /\ \A x, y \in DOMAIN table :
           (/\ table[x].date = table[y].date
            /\ \A dim \in Keyed : table[x][dim] = table[y][dim]) => x = y
    /\ \A batch \in Batches :
           Range(rowsOf(batch)) \subseteq Range(table) =>
               sameRows(insertSearchAnalyticsBatch(table, rowsOf(batch)).table, table)

\* the rows prune(table, p, now) deletes
deletedBy(p, now) == Range(table) \ Range(prune(table, p, now).table)

namedBy(row, p, cutoff) ==
    LET target == row.country # Null
                      /\ lower(row.country) \in {lower(c) : c \in p.targetCountries}
    IN /\ row.date < cutoff
       /\ row.clicks = 0
       /\ \/ target /\ row.impressions < p.targetMinImpressions
          \/ p.pruneNonTargetZeroClicks /\ ~target

\* C21: prune deletes exactly the rows older than the cutoff with zero clicks
\* that are of a target country with impressions below targetMinImpressions
\* or, with pruneNonTargetZeroClicks, not of a target country, rows with no
\* country value included
C21_ExactlyNamed ==
    \A p \in Policies, now \in Nows :
        deletedBy(p, now) =
            {row \in Range(table) : namedBy(row, p, pruneCutoff(now, p.recentDays))}

\* C22: preview leaves the table as it is, and for the same table, policy
\* and instant its wouldDelete is the rowsDeleted prune reports, wouldDelete
\* + wouldKeep = totalRows, and wouldKeep is prune's rowsAfter
C22_PreviewAgrees ==
    /\ [](\A p \in Policies, now \in Nows :
              LET would == preview(table, p, now)
                  done == prune(table, p, now)
              IN /\ would.wouldDelete = done.rowsDeleted
                 /\ would.wouldDelete + would.wouldKeep = would.totalRows
                 /\ would.totalRows = done.rowsBefore
                 /\ would.wouldKeep = done.rowsAfter
                 /\ done.rowsAfter = Len(done.table))
    /\ [][ret'.op = "preview" => table' = table]_vars

\* a preview of a table of which a prune would delete a row and keep a row
C22_Witness ==
    /\ ret.op = "preview"
    /\ ret.val.wouldDelete > 0
    /\ ret.val.wouldKeep > 0
    /\ ret.val.totalRows = Len(table)

\* C23: the chunks buildChunks(from, to) returns start at from, end at to,
\* are in increasing date order, each starting the day after the one before
\* it ends, and number ceil(totalDays / CHUNK_DAYS), totalDays counting both
\* from and to
C23_ChunkCoverage ==
    \A a \in DOMAIN task : \A i \in DOMAIN task[a].props :
        LET P == task[a].props[i]
            n == Len(P.chunks)
            totalDays == P.endDate - P.startDate + 1
        IN daysBetween(P.startDate, P.endDate) > CHUNK_DAYS =>
               /\ P.chunks = buildChunks(P.startDate, P.endDate)
               /\ P.chunks[1].from = P.startDate
               /\ P.chunks[n].to = P.endDate
               /\ \A k \in 1 .. n : P.chunks[k].from <= P.chunks[k].to
               /\ \A k \in 1 .. n - 1 : P.chunks[k + 1].from = P.chunks[k].to + 1
               /\ n = (totalDays + CHUNK_DAYS - 1) \div CHUNK_DAYS

\* ---------------------------------------------------------------- withRetry
\* one call withRetry(fn) with the default retries, from its first call of fn
\* to its return or throw; fn is the upstream request, which the environment
\* resolves or rejects.
RETRYABLE_STATUS_CODES == {429, 500, 502, 503}

\* a field an error object does not have
NoStatus == 0

\* the errors fn rejects with: an API error (code and response.status both
\* set), errors carrying the status in one place only, and one with none
Errors ==
    {[code |-> c, response |-> c, status |-> NoStatus] : c \in {429, 404}}
    \cup {[code |-> NoStatus, response |-> r, status |-> NoStatus] : r \in {500, 503, 403}}
    \cup {[code |-> NoStatus, response |-> NoStatus, status |-> s] : s \in {502, NoStatus}}

\* the values fn resolves with
Values == {"page", "empty"}

\* err?.code || err?.response?.status || err?.status
statusOf(err) ==
    IF err.code # NoStatus THEN err.code
    ELSE IF err.response # NoStatus THEN err.response
    ELSE err.status

isRetryableAny(err) == TRUE

isRetryable(err) == statusOf(err) \in RETRYABLE_STATUS_CODES

delay(attempt) == Min(1000 * 2^attempt, 30000)

NoOut == [kind |-> "none"]

\* withRetry entered: attempt 0, fn called once and awaited
withRetry ==
    [pc |-> "fn", attempt |-> 0, calls |-> 1, errors |-> <<>>, waits |-> <<>>,
     out |-> NoOut]

\* fn resolves: return await fn()
FnResolves(v) ==
    /\ retry.pc = "fn"
    /\ retry' = [retry EXCEPT !.pc = "returned", !.out = [kind |-> "value", value |-> v]]
    /\ UNCHANGED <<jobs, jobOrder, heap, task, store, nextId, ret, held, scenario, quota, table, pool, paging>>

\* fn rejects: the catch block
FnRejects(err) ==
    /\ retry.pc = "fn"
    /\ retry' =
         IF ~isRetryable(err) \/ retry.attempt = MAX_RETRIES
         THEN [retry EXCEPT !.pc = "threw", !.errors = Append(@, err),
                            !.out = [kind |-> "error", error |-> err]]
         ELSE [retry EXCEPT !.pc = "sleep", !.errors = Append(@, err),
                            !.waits = Append(@, delay(retry.attempt))]
    /\ UNCHANGED <<jobs, jobOrder, heap, task, store, nextId, ret, held, scenario, quota, table, pool, paging>>

\* the timer fires: attempt++, and the loop body calls fn again
TimerFires ==
    /\ retry.pc = "sleep"
    /\ retry' = [retry EXCEPT !.pc = "fn", !.attempt = @ + 1, !.calls = @ + 1]
    /\ UNCHANGED <<jobs, jobOrder, heap, task, store, nextId, ret, held, scenario, quota, table, pool, paging>>

RetryNext ==
    \/ \E v \in Values : FnResolves(v)
    \/ \E err \in Errors : FnRejects(err)
    \/ TimerFires

RetryInit ==
    /\ store = InitStore
    /\ ret = NoRet
    /\ held = NoHeld
    /\ table = <<>>
    /\ retry = withRetry
    /\ pool = NoPool
    /\ paging = NoPaging
    /\ scenario = Rows(Utc)
    /\ Fresh
    /\ quota = Budget(scenario)

\* every call of fn settles and every timer fires
RetrySpec == RetryInit /\ [][RetryNext]_vars /\ WF_vars(RetryNext)

C24_Settled == retry.pc \in {"returned", "threw"}

C24_Attempts ==
    LET n == Len(retry.errors)
        reattempted == IF retry.pc = "threw" THEN n - 1 ELSE n
    IN /\ retry.calls <= MAX_RETRIES + 1
       /\ retry.calls = IF retry.pc \in {"fn", "returned"} THEN n + 1 ELSE n
       /\ \A x \in 1..reattempted : statusOf(retry.errors[x]) \in {429, 500, 502, 503}
       /\ Len(retry.waits) = reattempted
       /\ \A x \in 1..reattempted :
             retry.waits[x] = IF 1000 * 2^(x - 1) < 30000 THEN 1000 * 2^(x - 1) ELSE 30000
       /\ retry.pc = "threw" =>
             /\ retry.out = [kind |-> "error", error |-> retry.errors[n]]
             /\ \/ statusOf(retry.errors[n]) \notin {429, 500, 502, 503}
                \/ n = MAX_RETRIES + 1
       /\ retry.pc = "returned" => retry.out.kind = "value"

\* C24: withRetry settles after at most MAX_RETRIES + 1 calls of fn; it calls
\* fn again only after an error with status 429, 500, 502 or 503 and a wait
\* of min(1000 * 2^attempt, 30000) ms; any other error is thrown at once, the
\* last error is thrown after the last allowed attempt, and after the first
\* success the value is returned and fn is not called again.
C24_RetryTerminates ==
    /\ [](C24_Attempts)
    /\ [][C24_Settled => retry' = retry]_vars
    /\ <>(C24_Settled)

C24_Witness ==
    /\ retry.pc = "threw"
    /\ retry.calls = MAX_RETRIES + 1
    /\ retry.waits = <<1000, 2000, 4000>>

C26_PruneExactly ==
    \A a \in DOMAIN heap :
        \A x \in DOMAIN heap[a].results :
            LET r == heap[a].results[x]
            IN /\ r.prune # "none" => r.status = "completed" /\ r.kept > 0
               /\ ~heap[a].cancelled /\ r.kept > 0 => r.prune # "none"
               /\ r.prune = "threw" =>
                     /\ r.status = "completed"
                     /\ r.rowsInserted = r.kept
                     /\ r.rowsFetched = r.kept
                     /\ ~r.error
                     /\ heap[a].status \in {"syncing", "completed", "cancelled"}

\* the claim on property syncs none of whose chunks threw
C26_PruneOnCompletion ==
    \A a \in DOMAIN heap :
        \A x \in DOMAIN heap[a].results :
            LET r == heap[a].results[x]
            IN /\ r.prune # "none" => r.status = "completed" /\ r.kept > 0
               /\ ~heap[a].cancelled /\ r.kept > 0 /\ r.status # "failed" => r.prune # "none"
               /\ r.prune = "threw" =>
                     /\ r.rowsInserted = r.kept
                     /\ r.rowsFetched = r.kept
                     /\ ~r.error
                     /\ heap[a].status \in {"syncing", "completed", "cancelled"}

\* the property syncs on `site` that still have a chunk being fetched
syncingOn(t, site) ==
    {<<b, i>> \in UNION {{<<b, i>> : i \in DOMAIN t[b].props} : b \in DOMAIN t} :
        /\ t[b].props[i].siteUrl = site
        /\ ~t[b].props[i].settled
        /\ DOMAIN t[b].props[i].fetch # {}}

\* the results job object a gains in this step
newResults(a) ==
    LET old == IF a \in DOMAIN heap THEN Len(heap[a].results) ELSE 0
    IN {heap'[a].results[x] : x \in (old + 1) .. Len(heap'[a].results)}

\* C27: whenever a property sync calls the Retention Pruner on a site's
\* store, no property sync of that store, of this job or of another, still
\* has a chunk that is not fetched and written.
C27_PruneAlone ==
    [][\A a \in DOMAIN heap' :
          \A r \in newResults(a) :
              r.prune # "none" => syncingOn(task', r.siteUrl) = {}]_vars

C28_Counted ==
    \A a \in DOMAIN heap :
        LET job == heap[a]
        IN /\ job.completedProperties = Len(job.results)
           /\ job.completedProperties <= job.totalProperties
           /\ \A x \in DOMAIN job.properties :
                  Cardinality({y \in DOMAIN job.results :
                                  job.results[y].siteUrl = job.properties[x].siteUrl}) <= 1
           /\ job.status \in {"completed", "failed"} =>
                  /\ Len(job.results) = job.totalProperties
                  /\ \A x \in DOMAIN job.properties :
                         \E y \in DOMAIN job.results :
                             job.results[y].siteUrl = job.properties[x].siteUrl

C28_Appended ==
    \A a \in DOMAIN heap :
        /\ a \in DOMAIN heap'
        /\ Len(heap'[a].results) >= Len(heap[a].results)
        /\ SubSeq(heap'[a].results, 1, Len(heap[a].results)) = heap[a].results

\* C28: a job's results only ever grows at its end; each property has at
\* most one entry; completedProperties is the length of results and at most
\* totalProperties; a job that ended completed or failed has exactly one
\* entry for each of its properties.
C28_ResultsAppendOnly == [](C28_Counted) /\ [][C28_Appended]_vars

\* a job of two properties that ended after the second result was appended
\* behind the first
C28_Witness ==
    \E a \in DOMAIN heap :
        /\ heap[a].totalProperties = 2
        /\ heap[a].status \in {"completed", "failed"}
        /\ Len(heap[a].results) = 2
        /\ heap[a].results[1].siteUrl # heap[a].results[2].siteUrl

\* ------------------------------------------------------- runWithConcurrency
\* one call runWithConcurrency(items, limit, fn) over items 1 .. n, from
\* the return of its synchronous part to the settling of its promise and
\* the end of its last worker; fn's promises are settled by the environment.
\* started counts the calls of fn per item.
MaxItems == 5
MaxLimit == 3

\* a worker that counts the items by itself
takeOwn(p, i) ==
    IF (IF i = 0 THEN p.index ELSE i) < p.n
    THEN LET next == (IF i = 0 THEN p.index ELSE i) + 1
         IN [p EXCEPT !.index = next,
                      !.inflight = (@ \ {i}) \cup {next},
                      !.started[next] = @ + 1]
    ELSE LET q == [p EXCEPT !.inflight = @ \ {i}, !.workers = @ - 1]
         IN IF q.workers = 0 /\ q.outcome = "pending"
            THEN [q EXCEPT !.outcome = "resolved"]
            ELSE q

\* a worker from its loop test to its next await, fn(items[i]) having
\* resolved (i = 0: the worker starts); the last worker to leave the loop
\* resolves Promise.all unless a worker has rejected
take(p, i) ==
    IF p.index < p.n
    THEN [p EXCEPT !.index = @ + 1,
                   !.inflight = (@ \ {i}) \cup {p.index + 1},
                   !.started[p.index + 1] = @ + 1]
    ELSE LET q == [p EXCEPT !.inflight = @ \ {i}, !.workers = @ - 1]
         IN IF q.workers = 0 /\ q.outcome = "pending"
            THEN [q EXCEPT !.outcome = "resolved"]
            ELSE q

RECURSIVE startWorkers(_, _)
startWorkers(p, w) == IF w = 0 THEN p ELSE startWorkers(take(p, 0), w - 1)

runWithConcurrency(n, limit) ==
    LET w == Min(limit, n)
        p == [n |-> n, limit |-> limit, index |-> 0, inflight |-> {},
              started |-> [i \in 1 .. n |-> 0], workers |-> w,
              outcome |-> "pending", threw |-> FALSE]
    IN IF w = 0 THEN [p EXCEPT !.outcome = "resolved"] ELSE startWorkers(p, w)

\* fn(items[i]) resolves: its worker goes on
ItemResolves(i) ==
    /\ pool' = take(pool, i)
    /\ UNCHANGED <<jobs, jobOrder, heap, task, store, nextId, ret, held, scenario, quota,
                   table, retry, paging>>

\* fn(items[i]) rejects: its worker rejects, and with it Promise.all, the
\* first time
ItemThrows(i) ==
    /\ pool' = [pool EXCEPT !.inflight = @ \ {i}, !.workers = @ - 1,
                            !.threw = TRUE,
                            !.outcome = IF @ = "pending" THEN "rejected" ELSE @]
    /\ UNCHANGED <<jobs, jobOrder, heap, task, store, nextId, ret, held, scenario, quota,
                   table, retry, paging>>

PoolNext ==
    \E i \in pool.inflight :
        \/ ItemResolves(i)
        \/ ItemThrows(i)

PoolInit ==
    /\ store = InitStore
    /\ ret = NoRet
    /\ held = NoHeld
    /\ table = <<>>
    /\ retry = NoRetry
    /\ pool \in {runWithConcurrency(n, limit) : n \in 0 .. MaxItems, limit \in 1 .. MaxLimit}
    /\ paging = NoPaging
    /\ scenario = Rows(Utc)
    /\ Fresh
    /\ quota = Budget(scenario)

PoolSpec == PoolInit /\ [][PoolNext]_vars

\* C29: runWithConcurrency calls fn at most once per item, has at most
\* min(limit, number of items) calls in flight, and, when no call throws,
\* has called fn once on every item by the time it resolves.
C29_PoolBounded ==
    /\ \A i \in 1 .. pool.n : pool.started[i] <= 1
    /\ Cardinality(pool.inflight) <= (IF pool.limit < pool.n THEN pool.limit ELSE pool.n)
    /\ pool.outcome = "resolved" =>
          /\ ~pool.threw
          /\ pool.inflight = {}
          /\ \A i \in 1 .. pool.n : pool.started[i] = 1
    /\ (~pool.threw /\ pool.inflight = {}) => pool.outcome = "resolved"

\* a call over more items than the limit has resolved
C29_Witness ==
    /\ pool.outcome = "resolved"
    /\ pool.n > pool.limit
    /\ pool.limit > 1
    /\ \A i \in 1 .. pool.n : pool.started[i] = 1

\* ------------------------------------------------------ fetchSearchAnalytics
\* one call fetchSearchAnalytics(siteUrl, options, signal, onPage) for one
\* chunk, from its first await to its return or throw; the environment
\* answers each request with a page, makes it fail, or sets the signal.
\* requests lists the startRow of every request, pages the number of rows of
\* every response, onPage the arguments of every call of onPage.
MaxPages == 5

\* options.rowLimit, 0 when the caller gives none (SyncManager gives none)
RowLimits == {0, ShortPage + 1, ShortPage + 2}

\* options.rowLimit || ROW_LIMIT
pageSize(options) == IF options.rowLimit # 0 THEN options.rowLimit ELSE ROW_LIMIT

\* the loop from its top to the await of the request, or to the return
loopTop(f) ==
    IF f.aborted
    THEN [f EXCEPT !.pc = "returned", !.out = f.totalRows]
    ELSE [f EXCEPT !.pc = "request", !.requests = Append(@, f.startRow)]

fetchSearchAnalytics(options, aborted) ==
    loopTop([options |-> options, aborted |-> aborted, totalRows |-> 0,
             startRow |-> 0, requests |-> <<>>, pages |-> <<>>, onPage |-> <<>>,
             pc |-> "top", out |-> 0])

\* a loop that counts pages, not rows
nextStartRowPage(startRow, rows) == startRow + 1

\* startRow += rows.length
nextStartRow(startRow, rows) == startRow + rows

\* the loop after a response of r rows
response(f, r) ==
    LET total == f.totalRows + r
        f1 == [f EXCEPT !.totalRows = total,
                        !.pages = Append(@, r),
                        !.onPage = IF r > 0
                                   THEN Append(@, [rows |-> r, totalSoFar |-> total,
                                                   startRow |-> f.startRow])
                                   ELSE @]
    IN IF r < pageSize(f.options)
       THEN [f1 EXCEPT !.pc = "returned", !.out = total]
       ELSE loopTop([f1 EXCEPT !.startRow = nextStartRow(@, r)])

PageResponse(r) ==
    /\ paging.pc = "request"
    /\ r = pageSize(paging.options) => Len(paging.requests) < MaxPages
    /\ paging' = response(paging, r)
    /\ UNCHANGED <<jobs, jobOrder, heap, task, store, nextId, ret, held, scenario, quota,
                   table, retry, pool>>

\* withRetry throws: the call rejects
RequestThrows ==
    /\ paging.pc = "request"
    /\ paging' = [paging EXCEPT !.pc = "threw"]
    /\ UNCHANGED <<jobs, jobOrder, heap, task, store, nextId, ret, held, scenario, quota,
                   table, retry, pool>>

\* the owner of the signal aborts while a request is awaited
SignalAborts ==
    /\ paging.pc = "request"
    /\ ~paging.aborted
    /\ paging' = [paging EXCEPT !.aborted = TRUE]
    /\ UNCHANGED <<jobs, jobOrder, heap, task, store, nextId, ret, held, scenario, quota,
                   table, retry, pool>>

PagingNext ==
    \/ \E r \in {0, ShortPage, pageSize(paging.options)} : PageResponse(r)
    \/ RequestThrows
    \/ SignalAborts

PagingInit ==
    /\ store = InitStore
    /\ ret = NoRet
    /\ held = NoHeld
    /\ table = <<>>
    /\ retry = NoRetry
    /\ pool = NoPool
    /\ paging \in {fetchSearchAnalytics([rowLimit |-> l], aborted) :
                      l \in RowLimits, aborted \in BOOLEAN}
    /\ scenario = Rows(Utc)
    /\ Fresh
    /\ quota = Budget(scenario)

PagingSpec == PagingInit /\ [][PagingNext]_vars

RECURSIVE rowsUpTo(_, _)
rowsUpTo(pages, n) == IF n = 0 THEN 0 ELSE rowsUpTo(pages, n - 1) + pages[n]

C30_Pages ==
    LET f == paging
        size == IF f.options.rowLimit # 0 THEN f.options.rowLimit ELSE ROW_LIMIT
        got == Len(f.pages)
    IN /\ Len(f.requests) = got + (IF f.pc \in {"request", "threw"} THEN 1 ELSE 0)
       /\ \A j \in DOMAIN f.requests : f.requests[j] = rowsUpTo(f.pages, j - 1)
       /\ \A j \in DOMAIN f.pages : j < Len(f.requests) => f.pages[j] = size
       /\ Len(f.onPage) = Cardinality({j \in DOMAIN f.pages : f.pages[j] > 0})
       /\ \A j \in DOMAIN f.onPage :
             f.onPage[j] = [rows |-> f.pages[j], totalSoFar |-> rowsUpTo(f.pages, j),
                            startRow |-> f.requests[j]]
       /\ f.pc = "returned" =>
             /\ f.out = rowsUpTo(f.pages, got)
             /\ f.aborted \/ (got > 0 /\ f.pages[got] < size)

\* C30: the requests of one chunk have startRow 0 and then the number of
\* rows received so far; the call stops after the first page shorter than
\* the page size, or at a request it would make with the signal set; onPage
\* is called once for each non-empty page, in order; the call returns the
\* number of rows received.
C30_Paging ==
    /\ [](C30_Pages)
    /\ [][Len(paging'.requests) > Len(paging.requests) => ~paging.aborted]_vars

\* a call returned after two full pages and a short one
C30_Witness ==
    /\ paging.pc = "returned"
    /\ ~paging.aborted
    /\ Len(paging.pages) = 3
    /\ paging.pages[3] = ShortPage
    /\ paging.out = 2 * ROW_LIMIT + ShortPage

\* C31: within a chunk the rows of a page are written to the store before
\* the next page of the chunk is requested: a chunk whose request asks for
\* rows beyond the first page has the rows of its earlier pages stored.
C31_PageWrittenFirst ==
    \A a \in DOMAIN heap :
        \A i \in DOMAIN task[a].props :
            \A k \in DOMAIN task[a].props[i].fetch :
                task[a].props[i].fetch[k].startRow > 0 => <<i, k>> \in heap[a].stored

\* C32: when a property's result is recorded, the sync_log row its sync
\* created with status running has a final status, whether the sync
\* succeeded, was cancelled or lost a chunk.
C32_LogFinalised ==
    \A a \in DOMAIN heap :
        \A x \in DOMAIN heap[a].results : heap[a].results[x].syncLog # "running"

\* C33: a property sync updates the last-synced marker only if it inserted
\* at least one row; a sync that is skipped, that fetched no row, or that
\* failed leaves the marker as it was.
C33_MarkerOnlyAfterInsert ==
    \A a \in DOMAIN heap :
        \A x \in DOMAIN heap[a].results :
            LET r == heap[a].results[x]
            IN /\ r.marked => r.kept > 0 /\ r.rowsInserted > 0
               /\ r.status \in {"skipped", "failed"} => ~r.marked
               /\ r.rowsFetched = 0 => ~r.marked

\* a sync completed without a row and left the marker; another, in the same
\* run, inserted rows and updated it
C33_Witness ==
    /\ \E a \in DOMAIN heap :
          \E x \in DOMAIN heap[a].results :
              /\ heap[a].results[x].status = "completed"
              /\ heap[a].results[x].rowsFetched = 0
              /\ ~heap[a].results[x].marked
    /\ \E a \in DOMAIN heap :
          \E x \in DOMAIN heap[a].results : heap[a].results[x].marked

\* ------------------------------------------------------------------ job ids
\* createJob takes the first 8 hex digits of randomUUID() as the job's id:
\* 32 of the 122 random bits, with no look at the ids in use.  Here the id is
\* drawn from MaxIds values, and the job object gets the next free address.
MaxIds == 3

Ids == 1 .. MaxIds

\* createJob with id the value of randomUUID().slice(0, 8) and a the address
\* of the new object: jobs.set(id, job) replaces what the map held for id
createJobAt(R, h, id, a, properties) ==
    pruneHistory([jobs |-> With(R.jobs, id, a),
                  jobOrder |-> Append(R.jobOrder, id)],
                 With(h, a, NewJob(id, properties)))

\* a few jobs, on a site with nothing to fetch and on one with a request
Draws ==
    [name |-> "draws", reads |-> TRUE, ends |-> {NoDate}, zone |-> Utc,
     sites |-> {"b", "c"}, dates |-> {NoDate},
     found |-> {<<>>}, rows |-> {ShortPage},
     jobs |-> MaxJobs, chunks |-> MaxFanOut, faults |-> 0,
     fulls |-> 0, cancels |-> 0, holds |-> 0]

\* startSync(args) when randomUUID() yields id
StartSyncDrawn(args, id) ==
    LET a == nextId
        properties == <<args>>
        R == createJobAt([jobs |-> jobs, jobOrder |-> jobOrder], heap, id, a, properties)
        W == runJob(NewW(NewJob(id, properties), NoTask, store, Quiet))
        S == runJobSync(NewW(NewJob(id, properties), NoTask, store, Quiet))
        n == plannedTotal(properties)
    IN /\ quota.jobs > 0
       /\ n <= quota.chunks
       /\ jobs' = R.jobs
       /\ jobOrder' = R.jobOrder
       /\ heap' = With(heap, a, W.job)
       /\ task' = With(task, a, W.t)
       /\ store' = W.store
       /\ nextId' = nextId + 1
       /\ ret' = [op |-> "startSync", arg |-> NoId, val |-> id,
                  at |-> [registered |-> id \in DOMAIN R.jobs,
                          status |-> S.job.status,
                          apiCallsMade |-> S.job.apiCallsMade,
                          completedProperties |-> S.job.completedProperties]]
       /\ quota' = [quota EXCEPT !.jobs = @ - 1, !.chunks = @ - n]
       /\ UNCHANGED <<held, scenario, table, retry, pool, paging>>

IdNext ==
    \/ \E site \in scenario.sites, id \in Ids :
           StartSyncDrawn([siteUrl |-> site, startDate |-> NoDate, endDate |-> NoDate,
                           dimensions |-> <<>>, searchType |-> "none"], id)
    \/ GetStatusAll

IdInit ==
    /\ store = InitStore
    /\ ret = NoRet
    /\ held = NoHeld
    /\ table = <<>>
    /\ retry = NoRetry
    /\ pool = NoPool
    /\ paging = NoPaging
    /\ scenario = Draws
    /\ Fresh
    /\ quota = Budget(scenario)

IdSpec == IdInit /\ [][IdNext]_vars

\* C34: no two jobs have the same id; jobOrder has no id twice and holds
\* exactly the keys of jobs; getStatus() answers with one status per tracked
\* job, in creation order.
C34_UniqueIds ==
    /\ \A a, b \in DOMAIN heap : a # b => heap[a].id # heap[b].id
    /\ \A x, y \in DOMAIN jobOrder : x # y => jobOrder[x] # jobOrder[y]
    /\ Range(jobOrder) = DOMAIN jobs
    /\ ret.op = "getStatusAll" =>
          /\ Len(ret.val) = Cardinality(DOMAIN jobs)
          /\ \A x, y \in DOMAIN ret.val : x < y => ret.val[x].results.ref < ret.val[y].results.ref

C35_FailureLeaves ==
    ret'.op = "startSyncAllError" => UNCHANGED <<jobs, jobOrder, heap, task, store, nextId>>

C35_JobOfDiscovery ==
    ret'.op = "startSyncAll" =>
        LET job == heap'[jobs'[ret'.val]]
            args == ret'.arg.args
            found == ret'.arg.found
        IN /\ ret'.val \notin DOMAIN jobs
           /\ DOMAIN jobs' \ DOMAIN jobs = {ret'.val}
           /\ job.totalProperties = Len(found)
           /\ Len(job.properties) = Len(found)
           /\ \A x \in DOMAIN found :
                 job.properties[x] =
                     [siteUrl |-> found[x],
                      startDate |-> args.startDate, endDate |-> args.endDate,
                      dimensions |-> args.dimensions, searchType |-> args.searchType]

\* C35: a startSyncAll whose discovery throws hands the error to its caller
\* and leaves registry and jobs as they were; one whose discovery answers
\* with n properties creates one job with those n properties, in that
\* order, each with the caller's dates, dimensions and search type.
C35_AfterDiscovery == [][C35_FailureLeaves /\ C35_JobOfDiscovery]_vars

\* startSyncAll made a job of two discovered properties that carry the
\* caller's end date, dimensions and search type
C35_Witness ==
    /\ ret.op = "startSyncAll"
    /\ Len(ret.arg.found) = 2
    /\ ret.arg.args.endDate # NoDate
    /\ ret.arg.args.searchType = "image"
    /\ heap[jobs[ret.val]].properties[2].searchType = "image"

\* ------------------------------------------------------------------ progress
\* withRetry's back-off timers fire
RetryFires ==
    \E a \in DOMAIN task : \E i \in DOMAIN task[a].props :
      \E k \in DOMAIN task[a].props[i].fetch : RetryFire(a, i, k)

\* one job of one or two properties, with an upstream failure, a full page
\* and a cancellation
Ends ==
    [name |-> "ends", reads |-> FALSE, ends |-> {NoDate}, zone |-> Utc,
     sites |-> {"a"}, dates |-> {Today - 30},
     found |-> {<<"a", "c">>}, rows |-> {ShortPage},
     jobs |-> 1, chunks |-> MaxChunks, faults |-> MaxFaults,
     fulls |-> MaxFullPages, cancels |-> MaxCancels, holds |-> 0]

\* one job of one request, and a caller that reads
Asks ==
    [name |-> "asks", reads |-> TRUE, ends |-> {NoDate}, zone |-> Utc,
     sites |-> {"c"}, dates |-> {NoDate},
     found |-> {<<"c">>}, rows |-> {ShortPage},
     jobs |-> 1, chunks |-> 1, faults |-> 0,
     fulls |-> 0, cancels |-> 0, holds |-> MaxHolds]

LiveInit ==
    /\ store = InitStore
    /\ ret = NoRet
    /\ held = NoHeld
    /\ table = <<>>
    /\ retry = NoRetry
    /\ pool = NoPool
    /\ paging = NoPaging
    /\ scenario \in {Ends, Long, Asks}
    /\ Fresh
    /\ quota = Budget(scenario)

\* the runs of one job in which every back-off timer fires
LiveSpec == LiveInit /\ [][Next]_vars /\ WF_vars(RetryFires)

\* some upstream request is in flight
AnyInFlight ==
    \E a \in DOMAIN task : \E i \in DOMAIN task[a].props :
      \E k \in DOMAIN task[a].props[i].fetch : InFlight(a, i, k)

\* every upstream request eventually returns or throws: requests do not stay
\* in flight for ever with no step of a worker
Answered == []<>(~AnyInFlight) \/ []<><<task' # task>>_vars

\* every job has a terminal status and currentProperty null
AllEnded ==
    \A a \in DOMAIN heap :
        heap[a].status \in Terminal /\ heap[a].currentProperty = <<>>

\* C36: when every upstream request is answered, every job ends up, for good,
\* with a terminal status and currentProperty null, cancelled or not and
\* whatever fails.
C36_JobsEnd == Answered => <>[]AllEnded

\* a job came to its end after a cancelJob and the failure of a property
C36_Witness ==
    \E a \in DOMAIN heap :
        /\ task[a].pc = "done"
        /\ heap[a].cancelled
        /\ heap[a].currentProperty = <<>>
        /\ \E x \in DOMAIN heap[a].results : heap[a].results[x].status = "failed"

\* the job at address a has a request in flight
FetchInFlight(a) ==
    \E i \in DOMAIN task[a].props :
        \E k \in DOMAIN task[a].props[i].fetch : InFlight(a, i, k)

\* C37: a job whose status is terminal has no upstream request in flight, and
\* its results, completedProperties, rowsFetched and apiCallsMade are the
\* same after every step.
C37_TerminalIsFinal ==
    [][\A a \in DOMAIN heap :
          heap[a].status \in Terminal =>
              /\ ~FetchInFlight(a)
              /\ heap'[a].results = heap[a].results
              /\ heap'[a].completedProperties = heap[a].completedProperties
              /\ heap'[a].rowsFetched = heap[a].rowsFetched
              /\ heap'[a].apiCallsMade = heap[a].apiCallsMade]_vars

\* a property or chunk worker of the job at address a is still executing:
\* its request is in flight or its back-off timer is pending
Working(a) ==
    \E i \in DOMAIN task[a].props :
        \E k \in DOMAIN task[a].props[i].fetch :
            task[a].props[i].fetch[k].phase \in {"inflight", "backoff"}

\* C38: a job with a worker still executing is in the registry, so
\* getStatus(jobId) finds it.
C38_WorkingIsTracked ==
    \A a \in DOMAIN heap :
        Working(a) => \E id \in DOMAIN jobs : jobs[id] = a /\ getStatus(id) # notFound(id)

\* C39: a property sync that has left syncOneProperty has its database
\* handle closed and its cancellation-check timer cleared, and no chunk worker
\* comes to a batch write of fetched rows on a handle that is closed.
C39_HandleDiscipline ==
    [][\A a \in DOMAIN task :
          \A i \in DOMAIN task[a].props :
              LET P == task[a].props[i]
              IN /\ P.settled => ~P.timer /\ ~P.dbOpen
                 /\ ~P.dbOpen =>
                        \A k \in DOMAIN P.fetch :
                            <<i, k>> \in heap[a].fetched
                                \/ <<i, k>> \notin heap'[a].fetched]_vars

\* the sum of rowsFetched over a sequence of property results
RECURSIVE resultRows(_)
resultRows(results) ==
    IF results = <<>> THEN 0 ELSE Head(results).rowsFetched + resultRows(Tail(results))

\* C40: a job that has its final status and none of whose workers is still
\* executing has a rowsFetched counter equal to the sum of rowsFetched over
\* its property results.
C40_RowsAddUp ==
    \A a \in DOMAIN heap :
        (task[a].pc = "done" /\ heap[a].status \in Terminal /\ ~Working(a))
            => heap[a].rowsFetched = resultRows(heap[a].results)

====
